---- MODULE Spec2Model ----
(***************************************************************************)
(* Model of the IRRBB valuation engine (calculations.py).                  *)
(*                                                                         *)
(* Conventions of the model                                                *)
(*   - a date is an integer day number; NoDate stands for Python's None;   *)
(*   - a rate is an integer number of millionths (0.0400 is 40000), so     *)
(*     one basis point is 100; float arithmetic is modelled in that fixed  *)
(*     point, rounding toward minus infinity as \div does;                 *)
(*   - money is an integer number of currency units;                       *)
(*   - date + timedelta(days = 365 / n) moves the date by the whole days   *)
(*     of the timedelta (30, 91, 182, 365) as datetime.date does, while    *)
(*     the accrual fraction interval_days / 365 stays 1 / n.               *)
(***************************************************************************)
EXTENDS Integers, Sequences, FiniteSets, TLC

VARIABLES
    fn,       \* name of the function the harness applied last
    args,     \* its inputs
    ret,      \* its result
    clock,    \* the system clock (date.today() reads it)
    db,       \* the instrument tables: committed loan, deposit, derivative rows
    pc,       \* position of the valuation run in generate_dashboard_data_from_db
    today,    \* the run's local variable today
    snap,     \* the run's local lists loans, deposits, derivatives
    scen,     \* results of the scenario valuations done so far, in order
    gap,      \* result of calculate_gap_analysis, <<>> before it ran
    outp,     \* driver and ladder records built after the scenario loop
    err,      \* the exception the run ended with, "none" otherwise
    asm,      \* the run's argument assumptions
    env       \* how many clock ticks and commits happened during the run

vars == <<fn, args, ret, clock, db, pc, today, snap, scen, gap, outp, err, asm, env>>
fnVars == <<fn, args, ret>>
runVars == <<clock, db, pc, today, snap, scen, gap, outp, err, asm, env>>

----------------------------------------------------------------------------
(* Values *)

NoDate == -99999
NoRate == -88888
NoFreq == "None"

RateUnit == 1000000
BpUnit == 100

Abs(x) == IF x < 0 THEN -x ELSE x
Min(a, b) == IF a <= b THEN a ELSE b
Max(a, b) == IF a >= b THEN a ELSE b

\* x * y / z in fixed point, symmetric in the sign of x
MulDiv(x, y, z) == IF x < 0 THEN -(((-x) * y) \div z) ELSE (x * y) \div z

\* s[lo] + ... + s[hi]
RECURSIVE SumRange(_, _, _)
SumRange(s, lo, hi) ==
    IF lo > hi THEN 0
    ELSE IF lo = hi THEN s[lo]
    ELSE SumRange(s, lo, (lo + hi) \div 2) + SumRange(s, ((lo + hi) \div 2) + 1, hi)

SumSeq(s) == SumRange(s, 1, Len(s))

\* lists[lo] \o ... \o lists[hi]
RECURSIVE ConcatRange(_, _, _)
ConcatRange(lists, lo, hi) ==
    IF lo > hi THEN <<>>
    ELSE IF lo = hi THEN lists[lo]
    ELSE ConcatRange(lists, lo, (lo + hi) \div 2)
         \o ConcatRange(lists, ((lo + hi) \div 2) + 1, hi)

\* the concatenation of a list of lists
Flatten(lists) == ConcatRange(lists, 1, Len(lists))

----------------------------------------------------------------------------
(* get_periods_per_year *)

Frequencies == {"Monthly", "Quarterly", "Semi-Annually", "Annually"}

get_periods_per_year(frequency) ==
    CASE frequency = "Monthly" -> 12
      [] frequency = "Quarterly" -> 4
      [] frequency = "Semi-Annually" -> 2
      [] frequency = "Annually" -> 1
      [] OTHER -> 0

\* the whole days date + timedelta(days = 365 / periods) moves by
IntervalStep(periods) == 365 \div periods

----------------------------------------------------------------------------
(* Yield curve and scenario catalog *)

Tenors == <<"1M", "3M", "6M", "1Y", "2Y", "3Y", "5Y", "7Y", "10Y", "15Y", "20Y", "30Y">>

tenor_map ==
    [t \in {Tenors[i] : i \in 1..Len(Tenors)} |->
        CASE t = "1M" -> 30 [] t = "3M" -> 90 [] t = "6M" -> 180
          [] t = "1Y" -> 365 [] t = "2Y" -> 365 * 2 [] t = "3Y" -> 365 * 3
          [] t = "5Y" -> 365 * 5 [] t = "7Y" -> 365 * 7 [] t = "10Y" -> 365 * 10
          [] t = "15Y" -> 365 * 15 [] t = "20Y" -> 365 * 20 [] t = "30Y" -> 365 * 30]

TenorSet == DOMAIN tenor_map

BASE_YIELD_CURVE ==
    [t \in TenorSet |->
        CASE t = "1M" -> 40000 [] t = "3M" -> 41000 [] t = "6M" -> 42500
          [] t = "1Y" -> 45000 [] t = "2Y" -> 47500 [] t = "3Y" -> 50000
          [] t = "5Y" -> 52500 [] t = "7Y" -> 54000 [] t = "10Y" -> 55000
          [] t = "15Y" -> 56000 [] t = "20Y" -> 56500 [] t = "30Y" -> 57000]

\* shocks in basis points, one row per scenario, in tenor order
ShockRow(name) ==
    CASE name = "Base Case" -> <<0, 0, 0, 0, 0, 0, 0, 0, 0, 0, 0, 0>>
      [] name = "Parallel Up +200bps" ->
            <<200, 200, 200, 200, 200, 200, 200, 200, 200, 200, 200, 200>>
      [] name = "Parallel Down -200bps" ->
            <<-200, -200, -200, -200, -200, -200, -200, -200, -200, -200, -200, -200>>
      [] name = "Short Rates Up +100bps" -> <<100, 100, 50, 25, 0, 0, 0, 0, 0, 0, 0, 0>>
      [] name = "Short Rates Down -100bps" -> <<-100, -100, -50, -25, 0, 0, 0, 0, 0, 0, 0, 0>>
      [] name = "Long Rates Up +100bps" -> <<0, 0, 0, 0, 25, 50, 100, 100, 100, 50, 25, 0>>

ScenarioNames ==
    <<"Base Case", "Parallel Up +200bps", "Parallel Down -200bps",
      "Short Rates Up +100bps", "Short Rates Down -100bps", "Long Rates Up +100bps">>

TenorIndex(t) == CHOOSE i \in 1..Len(Tenors) : Tenors[i] = t

INTEREST_RATE_SCENARIOS ==
    [n \in {ScenarioNames[i] : i \in 1..Len(ScenarioNames)} |->
        [t \in TenorSet |-> ShockRow(n)[TenorIndex(t)]]]

\* a shock that keeps only the tenors the shock map names
ShockNamedTenorsOnly(base_curve, shock_bps) ==
    [t \in DOMAIN base_curve \cap DOMAIN shock_bps |->
        base_curve[t] + shock_bps[t] * BpUnit]

\* shock_bps.get(tenor, 0) / 10000 added to every rate of the base curve
shock_yield_curve(base_curve, shock_bps) ==
    [t \in DOMAIN base_curve |->
        base_curve[t] + (IF t \in DOMAIN shock_bps THEN shock_bps[t] ELSE 0) * BpUnit]

\* the curve the scenario loops use for a scenario name
ScenarioCurve(name) ==
    IF name = "Base Case" THEN BASE_YIELD_CURVE
    ELSE shock_yield_curve(BASE_YIELD_CURVE, INTEREST_RATE_SCENARIOS[name])

\* sorted(tenor_map.keys(), key = tenor_map[x]): insertion of each tenor in day order
RECURSIVE SortTenors(_, _)
SortTenors(done, left) ==
    IF left = {} THEN done
    ELSE LET t == CHOOSE x \in left : \A y \in left : tenor_map[x] <= tenor_map[y]
         IN SortTenors(Append(done, t), left \ {t})

SortedTenors == SortTenors(<<>>, TenorSet)

\* interpolation that weighs the two bracket rates the wrong way round
InterpolateFromSwapped(yield_curve, num, den, i) ==
    LET tenors == SortedTenors
        k == CHOOSE j \in 1..(Len(tenors) - 1) :
                /\ tenor_map[tenors[j]] * den <= num
                /\ num <= tenor_map[tenors[j + 1]] * den
        days1 == tenor_map[tenors[k]]
        days2 == tenor_map[tenors[k + 1]]
        rate1 == yield_curve[tenors[k]]
        rate2 == yield_curve[tenors[k + 1]]
    IN rate2 + ((rate1 - rate2) * (num - days1 * den)) \div ((days2 - days1) * den)

\* the for loop of interpolate_rate from bracket i on, for num / den days
RECURSIVE InterpolateFrom(_, _, _, _)
InterpolateFrom(yield_curve, num, den, i) ==
    LET tenors == SortedTenors IN
    IF i > Len(tenors) - 1 THEN yield_curve[tenors[Len(tenors)]]
    ELSE LET t1 == tenors[i]
             t2 == tenors[i + 1]
             days1 == tenor_map[t1]
             days2 == tenor_map[t2]
             rate1 == yield_curve[t1]
             rate2 == yield_curve[t2]
         IN IF days1 = days2 THEN rate1
            ELSE IF days1 * den <= num /\ num <= days2 * den
                 THEN rate1 + ((rate2 - rate1) * (num - days1 * den))
                                \div ((days2 - days1) * den)
                 ELSE InterpolateFrom(yield_curve, num, den, i + 1)

\* interpolate_rate for a float number of days num / den (365 / 12 is 365 over 12)
interpolate_rate_at(yield_curve, num, den) ==
    LET tenors == SortedTenors IN
    IF num <= 0 THEN yield_curve[tenors[1]]
    ELSE IF num <= tenor_map[tenors[1]] * den THEN yield_curve[tenors[1]]
    ELSE IF num >= tenor_map[tenors[Len(tenors)]] * den
         THEN yield_curve[tenors[Len(tenors)]]
    ELSE InterpolateFrom(yield_curve, num, den, 1)

\* interpolate_rate for a whole number of days
interpolate_rate(yield_curve, days_to_maturity) ==
    interpolate_rate_at(yield_curve, days_to_maturity, 1)

----------------------------------------------------------------------------
(* get_bucket and the two bucket tables of the engine *)

\* a bucket table is the dict's items in insertion order: <<label, bound>>
nii_buckets_def ==
    << <<"0-3 Months", 90>>, <<"3-6 Months", 180>>, <<"6-12 Months", 365>>,
       <<"1-5 Years", 365 * 5>>, <<">5 Years", 365 * 100>>,
       <<"Fixed Rate / Non-Sensitive", -1>> >>

eve_buckets_def ==
    << <<"0-1 Year", 365>>, <<"1-3 Years", 365 * 3>>, <<"3-5 Years", 365 * 5>>,
       <<"5-10 Years", 365 * 10>>, <<">10 Years", 365 * 100>>,
       <<"Non-Maturity", -1>> >>

BucketKeys(buckets) == {buckets[i][1] : i \in 1..Len(buckets)}

\* the label of the entry whose bound is -1
CatchAll(buckets) ==
    buckets[CHOOSE i \in 1..Len(buckets) : buckets[i][2] = -1][1]

\* insert an item into a list sorted by bound, after the items with an equal bound
RECURSIVE InsertByBound(_, _)
InsertByBound(sorted, item) ==
    IF sorted = <<>> THEN <<item>>
    ELSE IF item[2] < Head(sorted)[2] THEN <<item>> \o sorted
    ELSE <<Head(sorted)>> \o InsertByBound(Tail(sorted), item)

\* the items left in insertion order, as if the sort were dropped
SortBucketsUnsorted(sorted, left) == sorted \o left

\* sorted(buckets.items(), key = item[1]) (a stable sort)
RECURSIVE SortBuckets(_, _)
SortBuckets(sorted, left) ==
    IF left = <<>> THEN sorted
    ELSE SortBuckets(InsertByBound(sorted, Head(left)), Tail(left))

\* the for loop of get_bucket from position i on, then the two fallbacks
RECURSIVE BucketScan(_, _, _)
BucketScan(sorted_buckets, days_diff, i) ==
    IF i > Len(sorted_buckets)
    THEN IF sorted_buckets # <<>> /\ days_diff > sorted_buckets[Len(sorted_buckets)][2]
         THEN sorted_buckets[Len(sorted_buckets)][1]
         ELSE "Non-Sensitive / Undefined"
    ELSE IF sorted_buckets[i][2] = -1 THEN BucketScan(sorted_buckets, days_diff, i + 1)
    ELSE IF days_diff <= sorted_buckets[i][2] THEN sorted_buckets[i][1]
    ELSE BucketScan(sorted_buckets, days_diff, i + 1)

get_bucket(item_date, today_, buckets) ==
    IF item_date = NoDate THEN "Non-Sensitive / Undefined"
    ELSE BucketScan(SortBuckets(<<>>, buckets), item_date - today_, 1)

----------------------------------------------------------------------------
(* Instrument rows (models.Loan, models.Deposit, models.Derivative) *)

Loan(id, type, notional, interest_rate, origination_date, maturity_date, spread, repricing_frequency, next_repricing_date, payment_frequency) ==
    [kind |-> "loan", id |-> id, type |-> type, notional |-> notional,
     interest_rate |-> interest_rate, origination_date |-> origination_date,
     maturity_date |-> maturity_date, spread |-> spread,
     repricing_frequency |-> repricing_frequency,
     next_repricing_date |-> next_repricing_date,
     payment_frequency |-> payment_frequency]

Deposit(id, type, balance, interest_rate, open_date, maturity_date, repricing_frequency, next_repricing_date, payment_frequency) ==
    [kind |-> "deposit", id |-> id, type |-> type, balance |-> balance,
     interest_rate |-> interest_rate, open_date |-> open_date,
     maturity_date |-> maturity_date, repricing_frequency |-> repricing_frequency,
     next_repricing_date |-> next_repricing_date,
     payment_frequency |-> payment_frequency]

Derivative(id, type, subtype, notional, start_date, end_date, fixed_rate, floating_spread, fixed_payment_frequency, floating_payment_frequency) ==
    [kind |-> "derivative", id |-> id, type |-> type, subtype |-> subtype,
     notional |-> notional, start_date |-> start_date, end_date |-> end_date,
     fixed_rate |-> fixed_rate, floating_spread |-> floating_spread,
     fixed_payment_frequency |-> fixed_payment_frequency,
     floating_payment_frequency |-> floating_payment_frequency]

\* Python truthiness of an optional string column: None and "" are false
Truthy(frequency) == frequency # NoFreq /\ frequency # ""

\* value if value is not None else 0
OrZero(value) == IF value = NoRate THEN 0 ELSE value

----------------------------------------------------------------------------
(* Prepayment: 1 - (1 - CPR) ** (interval_days / 365) in ten-thousandths *)

CprUnit == 10000

\* x ** n in the fixed point of CprUnit
RECURSIVE PowFix(_, _)
PowFix(x, n) == IF n = 0 THEN CprUnit ELSE (x * PowFix(x, n - 1)) \div CprUnit

\* the largest x in lo..hi with x ** n <= y: the n-th root of y
RECURSIVE RootFix(_, _, _, _)
RootFix(lo, hi, y, n) ==
    IF lo >= hi THEN lo
    ELSE LET mid == (lo + hi + 1) \div 2
         IN IF PowFix(mid, n) <= y THEN RootFix(mid, hi, y, n)
            ELSE RootFix(lo, mid - 1, y, n)

prepayment_per_period(prepayment_rate, periods) ==
    CprUnit - RootFix(0, CprUnit, CprUnit - prepayment_rate, periods)

----------------------------------------------------------------------------
(* generate_loan_cashflows *)

\* an advance that leaves a payment date falling on today where it is
RECURSIVE AdvanceToToday(_, _, _)
AdvanceToToday(date, today_, step) ==
    IF date < today_ THEN AdvanceToToday(date + step, today_, step) ELSE date

\* while next_payment_date <= today: next_payment_date += timedelta(days = interval)
RECURSIVE AdvancePast(_, _, _)
AdvancePast(date, today_, step) ==
    IF date <= today_ THEN AdvancePast(date + step, today_, step) ELSE date

\* balance * rate * (interval_days / 365)
Accrual(balance, rate, periods) == MulDiv(balance, rate, RateUnit * periods)

\* The payment loop.  st holds the loop's variables: next_payment_date,
\* current_repricing_date, current_balance, and the periods posted so far, each
\* with the rate and balance its interest accrued on.
RECURSIVE LoanLoop(_, _, _, _, _, _)

\* the end of a pass: the interest flow, the prepayment, the next payment date
LoanPass(loan, yield_curve, today_, include_principal, prepayment_rate, st, periods, reprices, effective_rate, repricing_date) ==
    IF effective_rate = NoRate THEN [st EXCEPT !.err = "TypeError"]
    ELSE LoanLoop(loan, yield_curve, today_, include_principal, prepayment_rate,
             [next_payment_date |-> st.next_payment_date + IntervalStep(periods),
              current_repricing_date |-> repricing_date,
              current_balance |->
                  IF prepayment_rate > 0 /\ include_principal
                  THEN Max(0, st.current_balance
                              - (st.current_balance
                                 * prepayment_per_period(prepayment_rate, periods))
                                \div CprUnit)
                  ELSE st.current_balance,
              posted |-> Append(st.posted,
                             [date |-> st.next_payment_date,
                              rate |-> effective_rate,
                              balance |-> st.current_balance,
                              interest |-> Accrual(st.current_balance, effective_rate,
                                                   periods),
                              reset |-> reprices]),
              err |-> "none"])

\* the start of a pass: the period's rate.  A floating loan whose repricing date
\* has come takes the curve's rate at the days to that date plus its spread and
\* moves the repricing date on; any other pass starts from loan.interest_rate,
\* and a floating loan without one takes the curve's rate at the days to payment.
LoanPeriod(loan, yield_curve, today_, include_principal, prepayment_rate, st, reprices, repricing_periods) ==
    IF reprices /\ Truthy(loan.repricing_frequency) /\ repricing_periods = 0
    THEN [st EXCEPT !.err = "ZeroDivisionError"]
    ELSE LoanPass(loan, yield_curve, today_, include_principal, prepayment_rate, st,
                  get_periods_per_year(loan.payment_frequency), reprices,
                  IF reprices
                  THEN interpolate_rate(yield_curve,
                                        Max(0, st.current_repricing_date - today_))
                       + OrZero(loan.spread)
                  ELSE IF loan.type = "Floating Rate Loan" /\ loan.interest_rate = NoRate
                  THEN interpolate_rate(yield_curve, st.next_payment_date - today_)
                       + OrZero(loan.spread)
                  ELSE loan.interest_rate,
                  IF ~reprices THEN st.current_repricing_date
                  ELSE IF Truthy(loan.repricing_frequency)
                  THEN st.current_repricing_date + IntervalStep(repricing_periods)
                  ELSE loan.maturity_date + 1)

LoanLoop(loan, yield_curve, today_, include_principal, prepayment_rate, st) ==
    IF loan.maturity_date = NoDate THEN [st EXCEPT !.err = "TypeError"]
    ELSE IF ~(st.next_payment_date <= loan.maturity_date /\ st.current_balance > 0)
    THEN st
    ELSE LoanPeriod(loan, yield_curve, today_, include_principal, prepayment_rate, st,
                    /\ loan.type = "Floating Rate Loan"
                    /\ st.current_repricing_date <= st.next_payment_date,
                    get_periods_per_year(loan.repricing_frequency))

\* the loop's final variables for a loan with a recognised payment frequency
LoanSchedule(loan, yield_curve, today_, include_principal, prepayment_rate) ==
    IF loan.origination_date = NoDate
    THEN [next_payment_date |-> NoDate, current_repricing_date |-> NoDate,
          current_balance |-> loan.notional, posted |-> <<>>, err |-> "TypeError"]
    ELSE LoanLoop(loan, yield_curve, today_, include_principal, prepayment_rate,
             [next_payment_date |->
                  AdvancePast(loan.origination_date, today_,
                              IntervalStep(get_periods_per_year(loan.payment_frequency))),
              current_repricing_date |->
                  IF loan.next_repricing_date # NoDate
                  THEN Max(today_, loan.next_repricing_date)
                  ELSE Max(today_, loan.origination_date),
              current_balance |-> loan.notional,
              posted |-> <<>>,
              err |-> "none"])

\* the result of generate_loan_cashflows: the exception it raised, if any, and the
\* list of (date, amount) it returned otherwise
LoanCashflows(loan, today_, include_principal, run) ==
    IF run.err # "none" THEN [err |-> run.err, cfs |-> <<>>]
    ELSE [err |-> "none",
          cfs |-> [i \in 1..Len(run.posted) |->
                      <<run.posted[i].date, run.posted[i].interest>>]
                  \o (IF /\ include_principal
                         /\ run.current_balance > 0
                         /\ loan.maturity_date # NoDate
                         /\ loan.maturity_date > today_
                      THEN << <<loan.maturity_date, run.current_balance>> >>
                      ELSE <<>>)]

generate_loan_cashflows(loan, yield_curve, today_, include_principal, prepayment_rate) ==
    IF get_periods_per_year(loan.payment_frequency) = 0 /\ loan.maturity_date # NoDate
    THEN [err |-> "none",
          cfs |-> IF include_principal /\ loan.maturity_date > today_
                  THEN << <<loan.maturity_date, loan.notional>> >> ELSE <<>>]
    ELSE IF get_periods_per_year(loan.payment_frequency) = 0
    THEN [err |-> "none", cfs |-> <<>>]
    ELSE LoanCashflows(loan, today_, include_principal,
                       LoanSchedule(loan, yield_curve, today_, include_principal,
                                    prepayment_rate))

----------------------------------------------------------------------------
(* generate_deposit_cashflows *)

NII_HORIZON_DAYS == 365
RateFloor == 100
BetaUnit == 100

\* balance * rate * (interval_days / 365) for an interval given in days
AccrualDays(balance, rate, days) == MulDiv(MulDiv(balance, rate, 1000), days, 365 * 1000)

\* an expense loop that runs one payment past the maturity date
RECURSIVE CdLoopPastMaturity(_, _, _, _, _)
CdLoopPastMaturity(deposit, date, step, amount, posted) ==
    IF date - step <= deposit.maturity_date
    THEN CdLoopPastMaturity(deposit, date + step, step, amount,
                            Append(posted, <<date, -amount>>))
    ELSE posted

\* the expense loop of a CD: one negative flow per payment date up to maturity
RECURSIVE CdLoop(_, _, _, _, _)
CdLoop(deposit, date, step, amount, posted) ==
    IF date <= deposit.maturity_date
    THEN CdLoop(deposit, date + step, step, amount, Append(posted, <<date, -amount>>))
    ELSE posted

\* the expense loop of a non-maturity deposit up to the projection end
RECURSIVE NmdLoop(_, _, _, _, _)
NmdLoop(date, projection_end_date, step, amount, posted) ==
    IF date <= projection_end_date
    THEN NmdLoop(date + step, projection_end_date, step, amount,
                 Append(posted, <<date, -amount>>))
    ELSE posted

\* a paid rate that follows the market below the floor
NmdRateUnfloored(deposit, yield_curve, nmd_deposit_beta, num, den) ==
    deposit.interest_rate
    + MulDiv(interpolate_rate_at(yield_curve, num, den)
             - interpolate_rate_at(BASE_YIELD_CURVE, num, den),
             nmd_deposit_beta, BetaUnit)

\* the paid rate of a non-maturity deposit under a curve, floored at 0.0001; the
\* market rate is read at 365 / periods days, 30 days without a repricing frequency
NmdEffectiveRate(deposit, yield_curve, nmd_deposit_beta, num, den) ==
    Max(RateFloor,
        deposit.interest_rate
        + MulDiv(interpolate_rate_at(yield_curve, num, den)
                 - interpolate_rate_at(BASE_YIELD_CURVE, num, den),
                 nmd_deposit_beta, BetaUnit))

\* the flows of a CD or wholesale funding paying every step days from first on
CdCashflows(deposit, include_principal, periods, step, first) ==
    IF step <= 0 /\ first <= deposit.maturity_date
    THEN [err |-> "NoReturn", cfs |-> <<>>]
    ELSE [err |-> "none",
          cfs |-> CdLoop(deposit, first, step,
                         IF periods = 0
                         THEN AccrualDays(deposit.balance, deposit.interest_rate, step)
                         ELSE Accrual(deposit.balance, deposit.interest_rate, periods),
                         <<>>)
                  \o (IF include_principal
                      THEN << <<deposit.maturity_date, -deposit.balance>> >>
                      ELSE <<>>)]

\* the flows of a checking or savings account paying every step days
NmdCashflows(deposit, today_, include_principal, conceptual_maturity_date, pay_periods, step, effective_rate) ==
    [err |-> "none",
     cfs |-> NmdLoop(today_ + step,
                     IF include_principal THEN conceptual_maturity_date
                     ELSE today_ + NII_HORIZON_DAYS,
                     step,
                     IF pay_periods # 0
                     THEN Accrual(deposit.balance, effective_rate, pay_periods)
                     ELSE AccrualDays(deposit.balance, effective_rate, 30),
                     <<>>)
             \o (IF include_principal
                 THEN << <<conceptual_maturity_date, -deposit.balance>> >>
                 ELSE <<>>)]

\* a schedule that repays any dated CD at its maturity date, passed or not
DepositRepaidWhenDated(deposit, yield_curve, today_, include_principal, nmd_effective_maturity_years, nmd_deposit_beta, periods, repricing_periods) ==
    [err |-> "none",
     cfs |-> IF /\ deposit.type \in {"CD", "Wholesale Funding"}
                /\ deposit.maturity_date # NoDate
                /\ include_principal
             THEN << <<deposit.maturity_date, -deposit.balance>> >>
             ELSE <<>>]

\* the branches of generate_deposit_cashflows once the frequencies are read
DepositCashflows(deposit, yield_curve, today_, include_principal, nmd_effective_maturity_years, nmd_deposit_beta, periods, repricing_periods) ==
    IF deposit.type \in {"CD", "Wholesale Funding"}
    THEN IF deposit.maturity_date = NoDate \/ deposit.maturity_date <= today_
         THEN [err |-> "none", cfs |-> <<>>]
         ELSE IF deposit.open_date = NoDate THEN [err |-> "TypeError", cfs |-> <<>>]
         ELSE IF periods = 0 /\ deposit.maturity_date <= deposit.open_date
                             /\ deposit.open_date <= today_
         THEN [err |-> "NoReturn", cfs |-> <<>>]
         ELSE IF periods = 0
         THEN CdCashflows(deposit, include_principal, periods,
                          deposit.maturity_date - deposit.open_date,
                          AdvancePast(deposit.open_date, today_,
                                      deposit.maturity_date - deposit.open_date))
         ELSE CdCashflows(deposit, include_principal, periods, IntervalStep(periods),
                          AdvancePast(deposit.open_date, today_, IntervalStep(periods)))
    ELSE IF deposit.type \in {"Checking", "Savings"}
    THEN IF Truthy(deposit.repricing_frequency) /\ repricing_periods = 0
         THEN [err |-> "ZeroDivisionError", cfs |-> <<>>]
         ELSE IF Truthy(deposit.payment_frequency) /\ periods = 0
         THEN [err |-> "ZeroDivisionError", cfs |-> <<>>]
         ELSE NmdCashflows(deposit, today_, include_principal,
                           today_ + 365 * nmd_effective_maturity_years,
                           periods,
                           IF periods # 0 THEN IntervalStep(periods) ELSE 30,
                           IF Truthy(deposit.repricing_frequency)
                           THEN NmdEffectiveRate(deposit, yield_curve, nmd_deposit_beta,
                                                 365, repricing_periods)
                           ELSE NmdEffectiveRate(deposit, yield_curve, nmd_deposit_beta,
                                                 30, 1))
    ELSE [err |-> "none", cfs |-> <<>>]

generate_deposit_cashflows(deposit, yield_curve, today_, include_principal, nmd_effective_maturity_years, nmd_deposit_beta) ==
    DepositCashflows(deposit, yield_curve, today_, include_principal,
                     nmd_effective_maturity_years, nmd_deposit_beta,
                     get_periods_per_year(deposit.payment_frequency),
                     get_periods_per_year(deposit.repricing_frequency))

----------------------------------------------------------------------------
(* Swap legs *)

\* get_accrual_period as the number of periods per year (1 / periods is the fraction)
get_accrual_period(payment_frequency) ==
    CASE payment_frequency = "Monthly" -> 12
      [] payment_frequency = "Quarterly" -> 4
      [] payment_frequency = "Semi-Annually" -> 2
      [] payment_frequency = "Annually" -> 1
      [] OTHER -> 1

RECURSIVE FixedLegLoop(_, _, _, _)
FixedLegLoop(derivative, payment_date, fixed_payment, posted) ==
    IF payment_date <= derivative.end_date
    THEN FixedLegLoop(derivative, payment_date + 365, fixed_payment,
                      Append(posted, <<payment_date, fixed_payment>>))
    ELSE posted

generate_fixed_leg_cashflows(derivative, yield_curve, today_) ==
    IF derivative.fixed_rate = NoRate THEN [err |-> "none", cfs |-> <<>>]
    ELSE IF derivative.start_date = NoDate \/ derivative.end_date = NoDate
    THEN [err |-> "TypeError", cfs |-> <<>>]
    ELSE LET payment_date == AdvancePast(derivative.start_date, today_, 365)
             fixed_payment == Accrual(derivative.notional, derivative.fixed_rate,
                                      get_accrual_period(derivative.fixed_payment_frequency))
         IN [err |-> "none",
             cfs |-> FixedLegLoop(derivative, payment_date, fixed_payment, <<>>)]

RECURSIVE FloatingLegLoop(_, _, _, _, _)
FloatingLegLoop(derivative, yield_curve, today_, payment_date, posted) ==
    LET days_to_payment == payment_date - today_
        floating_rate == interpolate_rate(yield_curve, days_to_payment)
                            + OrZero(derivative.floating_spread)
        floating_payment ==
            Accrual(derivative.notional, floating_rate,
                    get_accrual_period(derivative.floating_payment_frequency))
    IN IF payment_date <= derivative.end_date
       THEN FloatingLegLoop(derivative, yield_curve, today_, payment_date + 365,
                IF days_to_payment <= 0 THEN posted
                ELSE Append(posted, <<payment_date, floating_payment>>))
       ELSE posted

generate_floating_leg_cashflows(derivative, yield_curve, today_) ==
    IF derivative.start_date = NoDate \/ derivative.end_date = NoDate
    THEN [err |-> "TypeError", cfs |-> <<>>]
    ELSE [err |-> "none",
          cfs |-> FloatingLegLoop(derivative, yield_curve, today_,
                      AdvancePast(derivative.start_date, today_, 365), <<>>)]

----------------------------------------------------------------------------
(* calculate_pv_of_cashflows *)

DfUnit == 10000

\* 1 / (1 + discount_rate * (days_to_payment / 365.0)), in ten-thousandths
discount_factor(discount_rate, days_to_payment) ==
    (36500 * DfUnit) \div (36500 + (discount_rate * days_to_payment) \div 10000)

\* a valuation that drops the flows dated today with the past ones
FlowValueAfterTodayOnly(flow, yield_curve, today_) ==
    IF flow[1] <= today_ THEN 0
    ELSE MulDiv(flow[2],
                discount_factor(interpolate_rate(yield_curve, flow[1] - today_),
                                flow[1] - today_),
                DfUnit)

\* what one cash flow adds to total_pv: nothing before today, its amount on
\* today, its discounted amount after today
FlowValue(flow, yield_curve, today_) ==
    LET cf_date == flow[1]
        cf_amount == flow[2]
        days_to_payment == cf_date - today_
    IN IF cf_date < today_ THEN 0
       ELSE IF cf_date = today_ THEN cf_amount
       ELSE MulDiv(cf_amount,
                   discount_factor(interpolate_rate(yield_curve, days_to_payment),
                                   days_to_payment),
                   DfUnit)

calculate_pv_of_cashflows(cashflows, yield_curve, today_) ==
    SumSeq([i \in 1..Len(cashflows) |-> FlowValue(cashflows[i], yield_curve, today_)])

calculate_fixed_leg_pv(derivative, yield_curve, today_) ==
    LET fixed_cfs == generate_fixed_leg_cashflows(derivative, yield_curve, today_)
    IN IF derivative.fixed_rate = NoRate THEN [err |-> "none", pv |-> 0]
       ELSE [err |-> fixed_cfs.err,
             pv |-> calculate_pv_of_cashflows(fixed_cfs.cfs, yield_curve, today_)]

calculate_floating_leg_pv(derivative, yield_curve, today_) ==
    LET floating_cfs == generate_floating_leg_cashflows(derivative, yield_curve, today_)
    IN [err |-> floating_cfs.err,
        pv |-> calculate_pv_of_cashflows(floating_cfs.cfs, yield_curve, today_)]

----------------------------------------------------------------------------
(* Query results and sums over them *)

\* the rows of a set in primary-key order, as query(...).all() lists them
RECURSIVE RowsOf(_)
RowsOf(rows) ==
    IF rows = {} THEN <<>>
    ELSE LET first == CHOOSE r \in rows : \A o \in rows : r.id <= o.id
         IN <<first>> \o RowsOf(rows \ {first})

LoansOf(portfolio) == RowsOf({r \in portfolio : r.kind = "loan"})
DepositsOf(portfolio) == RowsOf({r \in portfolio : r.kind = "deposit"})
DerivativesOf(portfolio) == RowsOf({r \in portfolio : r.kind = "derivative"})

\* the first exception raised along a list of outcomes, "none" if there is none
FirstErr(errs) ==
    LET raised == {i \in 1..Len(errs) : errs[i] # "none"}
    IN IF raised = {} THEN "none"
       ELSE errs[CHOOSE i \in raised : \A j \in raised : i <= j]

\* sum(cf_amount for cf_date, cf_amount in cfs if today < cf_date <= horizon)
HorizonSum(cfs, today_) ==
    SumSeq([i \in 1..Len(cfs) |->
               IF today_ < cfs[i][1] /\ cfs[i][1] <= today_ + NII_HORIZON_DAYS
               THEN cfs[i][2] ELSE 0])

\* the same sum over abs(cf_amount)
HorizonAbsSum(cfs, today_) ==
    SumSeq([i \in 1..Len(cfs) |->
               IF today_ < cfs[i][1] /\ cfs[i][1] <= today_ + NII_HORIZON_DAYS
               THEN Abs(cfs[i][2]) ELSE 0])

----------------------------------------------------------------------------
(* calculate_nii_and_eve_for_curve *)

\* the activity test of the NII loop: start_date <= today and end_date > today
ActiveForNii(derivative, today_) ==
    derivative.start_date <= today_ /\ derivative.end_date > today_

\* what the NII loops add to total_nii_income and total_nii_expense for the
\* interest flows of one loan (income) or one deposit (expense)
FlowsNii(row, cfs, today_) ==
    [err |-> cfs.err,
     income |-> IF row.kind = "loan" THEN HorizonSum(cfs.cfs, today_) ELSE 0,
     expense |-> IF row.kind = "loan" THEN 0 ELSE HorizonAbsSum(cfs.cfs, today_)]

LoanNii(loan, yield_curve, today_, assumptions) ==
    IF loan.type = "Cash" THEN [err |-> "none", income |-> 0, expense |-> 0]
    ELSE FlowsNii(loan,
                  generate_loan_cashflows(loan, yield_curve, today_, FALSE,
                                          assumptions.prepayment_rate),
                  today_)

DepositNii(deposit, yield_curve, today_, assumptions) ==
    IF deposit.type = "Equity" THEN [err |-> "none", income |-> 0, expense |-> 0]
    ELSE FlowsNii(deposit,
                  generate_deposit_cashflows(deposit, yield_curve, today_, FALSE,
                      assumptions.nmd_effective_maturity_years,
                      assumptions.nmd_deposit_beta),
                  today_)

\* what the NII loop adds for the two legs of an active derivative
DerivativeNiiOf(derivative, today_, fixed_cfs, floating_cfs) ==
    [err |-> FirstErr(<<fixed_cfs.err, floating_cfs.err>>),
     income |-> IF derivative.subtype = "Payer Swap"
                THEN Abs(HorizonSum(floating_cfs.cfs, today_))
                ELSE Abs(HorizonSum(fixed_cfs.cfs, today_)),
     expense |-> IF derivative.subtype = "Payer Swap"
                 THEN Abs(HorizonSum(fixed_cfs.cfs, today_))
                 ELSE Abs(HorizonSum(floating_cfs.cfs, today_))]

DerivativeNii(derivative, yield_curve, today_) ==
    IF derivative.start_date = NoDate
    THEN [err |-> "TypeError", income |-> 0, expense |-> 0]
    ELSE IF derivative.start_date <= today_ /\ derivative.end_date = NoDate
    THEN [err |-> "TypeError", income |-> 0, expense |-> 0]
    ELSE IF ~ActiveForNii(derivative, today_)
    THEN [err |-> "none", income |-> 0, expense |-> 0]
    ELSE DerivativeNiiOf(derivative, today_,
                         generate_fixed_leg_cashflows(derivative, yield_curve, today_),
                         generate_floating_leg_cashflows(derivative, yield_curve, today_))

\* what the EVE loops add to total_pv_assets and total_pv_liabilities for the
\* flows of one loan or one deposit (a negative present value)
FlowsEve(row, cfs, yield_curve, today_) ==
    [err |-> cfs.err,
     assets |-> IF row.kind = "loan"
                THEN calculate_pv_of_cashflows(cfs.cfs, yield_curve, today_) ELSE 0,
     liabilities |-> IF row.kind = "loan" THEN 0
                     ELSE calculate_pv_of_cashflows(cfs.cfs, yield_curve, today_)]

LoanEve(loan, yield_curve, today_, assumptions) ==
    IF loan.type = "Cash" THEN [err |-> "none", assets |-> 0, liabilities |-> 0]
    ELSE FlowsEve(loan,
                  generate_loan_cashflows(loan, yield_curve, today_, TRUE,
                                          assumptions.prepayment_rate),
                  yield_curve, today_)

DepositEve(deposit, yield_curve, today_, assumptions) ==
    IF deposit.type = "Equity" THEN [err |-> "none", assets |-> 0, liabilities |-> 0]
    ELSE FlowsEve(deposit,
                  generate_deposit_cashflows(deposit, yield_curve, today_, TRUE,
                      assumptions.nmd_effective_maturity_years,
                      assumptions.nmd_deposit_beta),
                  yield_curve, today_)

\* what the EVE loop adds for one derivative: the received leg to assets, the paid
\* leg to liabilities
DerivativeEveOf(derivative, fixed_pv, floating_pv) ==
    [err |-> FirstErr(<<fixed_pv.err, floating_pv.err>>),
     assets |-> IF derivative.subtype = "Payer Swap" THEN floating_pv.pv
                ELSE fixed_pv.pv,
     liabilities |-> IF derivative.subtype = "Payer Swap" THEN fixed_pv.pv
                     ELSE floating_pv.pv]

DerivativeEve(derivative, yield_curve, today_) ==
    DerivativeEveOf(derivative,
                    calculate_fixed_leg_pv(derivative, yield_curve, today_),
                    calculate_floating_leg_pv(derivative, yield_curve, today_))

\* the dict the function returns from the totals of its loops
CurveMetrics(total_nii_income, total_nii_expense, total_pv_assets, total_pv_liabilities, total_pv_derivatives) ==
    [err |-> "none",
     net_interest_income |-> total_nii_income - total_nii_expense,
     economic_value_of_equity |->
         total_pv_assets - Abs(total_pv_liabilities) + total_pv_derivatives,
     total_assets_value |-> total_pv_assets,
     total_liabilities_value |-> Abs(total_pv_liabilities),
     total_derivatives_value |-> total_pv_derivatives]

\* the outcome of the NII loops and the EVE loops: the first exception raised,
\* the metrics otherwise
CurveOutcome(nii_parts, eve_parts) ==
    IF FirstErr([i \in 1..Len(nii_parts) |-> nii_parts[i].err]) # "none"
    THEN [err |-> FirstErr([i \in 1..Len(nii_parts) |-> nii_parts[i].err])]
    ELSE IF FirstErr([i \in 1..Len(eve_parts) |-> eve_parts[i].err]) # "none"
    THEN [err |-> FirstErr([i \in 1..Len(eve_parts) |-> eve_parts[i].err])]
    ELSE CurveMetrics(SumSeq([i \in 1..Len(nii_parts) |-> nii_parts[i].income]),
                      SumSeq([i \in 1..Len(nii_parts) |-> nii_parts[i].expense]),
                      SumSeq([i \in 1..Len(eve_parts) |-> eve_parts[i].assets]),
                      SumSeq([i \in 1..Len(eve_parts) |-> eve_parts[i].liabilities]),
                      0)

\* the metrics of one scenario for the rows the three queries return; err is the
\* exception that left the function, if one did
calculate_nii_and_eve_for_curve(portfolio, today_, yield_curve, assumptions) ==
    CurveOutcome(
        [i \in 1..Len(LoansOf(portfolio)) |->
            LoanNii(LoansOf(portfolio)[i], yield_curve, today_, assumptions)]
        \o [i \in 1..Len(DepositsOf(portfolio)) |->
                DepositNii(DepositsOf(portfolio)[i], yield_curve, today_, assumptions)]
        \o [i \in 1..Len(DerivativesOf(portfolio)) |->
                DerivativeNii(DerivativesOf(portfolio)[i], yield_curve, today_)],
        [i \in 1..Len(LoansOf(portfolio)) |->
            LoanEve(LoansOf(portfolio)[i], yield_curve, today_, assumptions)]
        \o [i \in 1..Len(DepositsOf(portfolio)) |->
                DepositEve(DepositsOf(portfolio)[i], yield_curve, today_, assumptions)]
        \o [i \in 1..Len(DerivativesOf(portfolio)) |->
                DerivativeEve(DerivativesOf(portfolio)[i], yield_curve, today_)])

----------------------------------------------------------------------------
(* calculate_gap_analysis *)

nii_bucket_order ==
    <<"0-3 Months", "3-6 Months", "6-12 Months", "1-5 Years", ">5 Years",
      "Fixed Rate / Non-Sensitive">>

eve_bucket_order ==
    <<"0-1 Year", "1-3 Years", "3-5 Years", "5-10 Years", ">10 Years", "Non-Maturity">>

\* the days the gap loops add per repricing frequency; 0 stands for the break
GapStep(frequency) ==
    CASE frequency = "Monthly" -> 30
      [] frequency = "Quarterly" -> 90
      [] frequency = "Semi-Annually" -> 182
      [] frequency = "Annually" -> 365
      [] OTHER -> 0

\* an addition to a gap table: bucket_name, "assets" or "liabilities", the amount
Add(bucket_name, side, amount) ==
    [bucket |-> bucket_name, side |-> side, amount |-> amount]

\* the additions of a repricing loop: one per repricing date up to end_date
RECURSIVE RepricingAdds(_, _, _, _, _, _)
RepricingAdds(current_date, end_date, today_, frequency, side, amount) ==
    IF current_date <= end_date
    THEN <<Add(get_bucket(current_date, today_, nii_buckets_def), side, amount)>>
         \o (IF GapStep(frequency) = 0 THEN <<>>
             ELSE RepricingAdds(current_date + GapStep(frequency), end_date, today_,
                                frequency, side, amount))
    ELSE <<>>

NiiGapLoan(loan, today_) ==
    IF loan.type = "Cash" THEN [err |-> "none", adds |-> <<>>]
    ELSE IF loan.type = "HTM Securities" \/ loan.next_repricing_date = NoDate
    THEN [err |-> "none",
          adds |-> <<Add("Fixed Rate / Non-Sensitive", "assets", loan.notional)>>]
    ELSE IF loan.maturity_date = NoDate THEN [err |-> "TypeError", adds |-> <<>>]
    ELSE [err |-> "none",
          adds |-> RepricingAdds(loan.next_repricing_date, loan.maturity_date, today_,
                                 loan.repricing_frequency, "assets", loan.notional)]

NiiGapDeposit(deposit, today_) ==
    IF deposit.type = "Equity" THEN [err |-> "none", adds |-> <<>>]
    ELSE IF deposit.type \in {"CD", "Wholesale Funding"} /\ deposit.maturity_date # NoDate
    THEN [err |-> "none",
          adds |-> <<Add(get_bucket(deposit.maturity_date, today_, nii_buckets_def),
                         "liabilities", deposit.balance)>>]
    ELSE IF deposit.type \in {"Checking", "Savings"} /\ deposit.next_repricing_date # NoDate
    THEN [err |-> "none",
          adds |-> RepricingAdds(deposit.next_repricing_date, today_ + 365 * 5, today_,
                                 deposit.repricing_frequency, "liabilities",
                                 deposit.balance)]
    ELSE [err |-> "none",
          adds |-> <<Add("Fixed Rate / Non-Sensitive", "liabilities", deposit.balance)>>]

NiiGapDerivative(derivative, today_) ==
    LET fixed_side == IF derivative.subtype = "Payer Swap" THEN "liabilities" ELSE "assets"
        floating_side ==
            IF derivative.subtype = "Receiver Swap" THEN "liabilities" ELSE "assets"
        fixed_leg == <<Add("Fixed Rate / Non-Sensitive", fixed_side, derivative.notional)>>
    IN IF derivative.type # "Interest Rate Swap" THEN [err |-> "none", adds |-> <<>>]
       ELSE IF ~Truthy(derivative.floating_payment_frequency)
       THEN [err |-> "none",
             adds |-> fixed_leg \o <<Add("Fixed Rate / Non-Sensitive", floating_side,
                                         derivative.notional)>>]
       ELSE IF derivative.end_date = NoDate THEN [err |-> "TypeError", adds |-> <<>>]
       ELSE [err |-> "none",
             adds |-> fixed_leg \o
                 RepricingAdds(today_ + GapStep(derivative.floating_payment_frequency),
                               derivative.end_date, today_,
                               derivative.floating_payment_frequency, floating_side,
                               derivative.notional)]

EveGapLoan(loan, today_) ==
    IF loan.type = "Cash" THEN [err |-> "none", adds |-> <<>>]
    ELSE [err |-> "none",
          adds |-> <<Add(get_bucket(loan.maturity_date, today_, eve_buckets_def),
                         "assets", loan.notional)>>]

EveGapDeposit(deposit, today_) ==
    IF deposit.type = "Equity" THEN [err |-> "none", adds |-> <<>>]
    ELSE IF deposit.type \in {"CD", "Wholesale Funding"} /\ deposit.maturity_date # NoDate
    THEN [err |-> "none",
          adds |-> <<Add(get_bucket(deposit.maturity_date, today_, eve_buckets_def),
                         "liabilities", deposit.balance)>>]
    ELSE [err |-> "none", adds |-> <<Add("Non-Maturity", "liabilities", deposit.balance)>>]

EveGapDerivative(derivative, today_) ==
    LET bucket_name == get_bucket(derivative.end_date, today_, eve_buckets_def)
    IN IF derivative.subtype \in {"Payer Swap", "Receiver Swap"}
       THEN [err |-> "none",
             adds |-> <<Add(bucket_name, "liabilities", derivative.notional),
                        Add(bucket_name, "assets", derivative.notional)>>]
       ELSE [err |-> "none", adds |-> <<>>]

\* the additions of every instrument, joined in loop order
JoinAdds(parts) == Flatten([i \in 1..Len(parts) |-> parts[i].adds])

\* gap_data[bucket][side] after the additions
SideTotal(adds, bucket_name, side) ==
    SumSeq([i \in 1..Len(adds) |->
               IF adds[i].bucket = bucket_name /\ adds[i].side = side
               THEN adds[i].amount ELSE 0])

\* a table whose gap adds the liabilities to the assets
GapResultsSummed(adds, order) ==
    [i \in 1..Len(order) |->
        [bucket |-> order[i],
         assets |-> SideTotal(adds, order[i], "assets"),
         liabilities |-> SideTotal(adds, order[i], "liabilities"),
         gap |-> SideTotal(adds, order[i], "assets")
                    + SideTotal(adds, order[i], "liabilities")]]

\* the list of schemas.GapBucket built from gap_data in bucket order
GapResults(adds, order) ==
    [i \in 1..Len(order) |->
        [bucket |-> order[i],
         assets |-> SideTotal(adds, order[i], "assets"),
         liabilities |-> SideTotal(adds, order[i], "liabilities"),
         gap |-> SideTotal(adds, order[i], "assets")
                    - SideTotal(adds, order[i], "liabilities")]]

\* an addition under a label that is no key of gap_data raises KeyError
KeyErrorIn(adds, order) ==
    IF \E i \in 1..Len(adds) : \A j \in 1..Len(order) : adds[i].bucket # order[j]
    THEN "KeyError" ELSE "none"

\* the outcome of the gap loops: the first exception raised, the two tables
\* otherwise
GapOutcome(nii_parts, eve_parts) ==
    IF FirstErr(<<FirstErr([i \in 1..Len(nii_parts) |-> nii_parts[i].err]),
                  KeyErrorIn(JoinAdds(nii_parts), nii_bucket_order),
                  KeyErrorIn(JoinAdds(eve_parts), eve_bucket_order)>>) # "none"
    THEN [err |-> FirstErr(<<FirstErr([i \in 1..Len(nii_parts) |-> nii_parts[i].err]),
                             KeyErrorIn(JoinAdds(nii_parts), nii_bucket_order),
                             KeyErrorIn(JoinAdds(eve_parts), eve_bucket_order)>>)]
    ELSE [err |-> "none",
          nii_repricing_gap |-> GapResults(JoinAdds(nii_parts), nii_bucket_order),
          eve_maturity_gap |-> GapResults(JoinAdds(eve_parts), eve_bucket_order)]

\* the two gap tables for the rows the three queries return
calculate_gap_analysis(portfolio, today_) ==
    GapOutcome(
        [i \in 1..Len(LoansOf(portfolio)) |-> NiiGapLoan(LoansOf(portfolio)[i], today_)]
        \o [i \in 1..Len(DepositsOf(portfolio)) |->
                NiiGapDeposit(DepositsOf(portfolio)[i], today_)]
        \o [i \in 1..Len(DerivativesOf(portfolio)) |->
                NiiGapDerivative(DerivativesOf(portfolio)[i], today_)],
        [i \in 1..Len(LoansOf(portfolio)) |-> EveGapLoan(LoansOf(portfolio)[i], today_)]
        \o [i \in 1..Len(DepositsOf(portfolio)) |->
                EveGapDeposit(DepositsOf(portfolio)[i], today_)]
        \o [i \in 1..Len(DerivativesOf(portfolio)) |->
                EveGapDerivative(DerivativesOf(portfolio)[i], today_)])

----------------------------------------------------------------------------
(* calculate_modified_duration, in thousandths of a year; NoDuration is None *)

NoDuration == -77777
DurationUnit == 1000

\* the flows dated after today
FutureFlows(cashflows, today_) ==
    Flatten([i \in 1..Len(cashflows) |->
                IF cashflows[i][1] > today_ THEN <<cashflows[i]>> ELSE <<>>])

\* pv_cf of one future flow
FlowPv(flow, yield_curve, today_) ==
    MulDiv(flow[2],
           discount_factor(interpolate_rate(yield_curve, flow[1] - today_),
                           flow[1] - today_),
           DfUnit)

\* a duration that is 0 where the present value of the future flows is 0
DurationZeroWithoutPv(future, yield_curve, today_) ==
    IF SumSeq([i \in 1..Len(future) |-> FlowPv(future[i], yield_curve, today_)]) = 0
    THEN 0
    ELSE MulDiv(
        MulDiv(SumSeq([i \in 1..Len(future) |->
                   (future[i][1] - today_) * FlowPv(future[i], yield_curve, today_)])
               \div SumSeq([i \in 1..Len(future) |->
                               FlowPv(future[i], yield_curve, today_)]),
               DurationUnit, 365),
        RateUnit \div 1000,
        (RateUnit
         + SumSeq([i \in 1..Len(future) |->
                      interpolate_rate(yield_curve, future[i][1] - today_)])
               \div Max(1, Len(future))) \div 1000)

\* the loop over the future flows and the duration from its sums
DurationOf(future, yield_curve, today_) ==
    IF SumSeq([i \in 1..Len(future) |-> FlowPv(future[i], yield_curve, today_)]) = 0
    THEN NoDuration
    ELSE MulDiv(
        MulDiv(SumSeq([i \in 1..Len(future) |->
                   (future[i][1] - today_) * FlowPv(future[i], yield_curve, today_)])
               \div SumSeq([i \in 1..Len(future) |->
                               FlowPv(future[i], yield_curve, today_)]),
               DurationUnit, 365),
        RateUnit \div 1000,
        (RateUnit
         + SumSeq([i \in 1..Len(future) |->
                      interpolate_rate(yield_curve, future[i][1] - today_)])
               \div Max(1, Len(future))) \div 1000)

calculate_modified_duration(cashflows, yield_curve, today_) ==
    IF cashflows = <<>> THEN NoDuration
    ELSE DurationOf(FutureFlows(cashflows, today_), yield_curve, today_)

----------------------------------------------------------------------------
(* The records generate_dashboard_data_from_db builds after the scenario loop *)

\* the activity test of the EVE driver and ladder loops: a derivative is skipped
\* when start_date > today or end_date < today
SkippedByDrivers(derivative, today_) ==
    derivative.start_date > today_ \/ derivative.end_date < today_

InstrumentId(id, leg) == [id |-> id, leg |-> leg]

\* a derivative whose dates make the activity test of the driver and ladder
\* loops compare a date with None
UndatedDerivative(derivative, today_) ==
    \/ derivative.start_date = NoDate
    \/ derivative.start_date <= today_ /\ derivative.end_date = NoDate

\* one EVE driver record
EveDriverRecord(scenario_name, instrument_id, instrument_type, base_pv, cashflows, curve, today_) ==
    [scenario |-> scenario_name,
     instrument_id |-> instrument_id,
     instrument_type |-> instrument_type,
     base_pv |-> base_pv,
     duration |-> calculate_modified_duration(cashflows, curve, today_)]

\* the EVE driver record of a loan or a deposit from its flows
EveDriverOf(scenario_name, row, cfs, curve, today_) ==
    [err |-> cfs.err,
     recs |-> <<EveDriverRecord(scenario_name, InstrumentId(row.id, ""), row.type,
                                calculate_pv_of_cashflows(cfs.cfs, curve, today_),
                                cfs.cfs, curve, today_)>>]

\* the EVE driver records of a derivative the loop does not skip, from the flows
\* of its two legs
EveDriverLegs(scenario_name, derivative, fixed_cfs, floating_cfs, curve, today_) ==
    LET Leg(leg, side, cashflows) ==
            EveDriverRecord(scenario_name, InstrumentId(derivative.id, leg), side,
                            Abs(calculate_pv_of_cashflows(cashflows, curve, today_)),
                            cashflows, curve, today_)
    IN [err |-> FirstErr(<<fixed_cfs.err, floating_cfs.err>>),
        recs |->
            IF derivative.subtype = "Receiver Swap"
            THEN <<Leg("_fixed", "Derivative (Fixed Asset)", fixed_cfs.cfs),
                   Leg("_floating", "Derivative (Floating Liability)", floating_cfs.cfs)>>
            ELSE IF derivative.subtype = "Payer Swap"
            THEN <<Leg("_fixed", "Derivative (Fixed Liability)", fixed_cfs.cfs),
                   Leg("_floating", "Derivative (Floating Asset)", floating_cfs.cfs)>>
            ELSE IF Abs(calculate_pv_of_cashflows(fixed_cfs.cfs, curve, today_))
                        > Abs(calculate_pv_of_cashflows(floating_cfs.cfs, curve, today_))
            THEN <<Leg("", derivative.type, fixed_cfs.cfs)>>
            ELSE <<Leg("", derivative.type, floating_cfs.cfs)>>]

\* the EVE driver records of one scenario, from the rows the loops run over
EveDrivers(scenario_name, loans, deposits, derivatives, curve, today_, assumptions) ==
    [i \in 1..Len(loans) |->
        EveDriverOf(scenario_name, loans[i],
                    generate_loan_cashflows(loans[i], curve, today_, TRUE,
                                            assumptions.prepayment_rate),
                    curve, today_)]
    \o [i \in 1..Len(deposits) |->
        EveDriverOf(scenario_name, deposits[i],
                    generate_deposit_cashflows(deposits[i], curve, today_, TRUE,
                        assumptions.nmd_effective_maturity_years,
                        assumptions.nmd_deposit_beta),
                    curve, today_)]
    \o [i \in 1..Len(derivatives) |->
        IF UndatedDerivative(derivatives[i], today_)
        THEN [err |-> "TypeError", recs |-> <<>>]
        ELSE IF SkippedByDrivers(derivatives[i], today_)
        THEN [err |-> "none", recs |-> <<>>]
        ELSE EveDriverLegs(scenario_name, derivatives[i],
                           generate_fixed_leg_cashflows(derivatives[i], curve, today_),
                           generate_floating_leg_cashflows(derivatives[i], curve, today_),
                           curve, today_)]

\* one NII driver record
NiiDriverRecord(scenario_name, instrument_id, instrument_type, nii_contribution, breakdown_value) ==
    [scenario |-> scenario_name,
     instrument_id |-> instrument_id,
     instrument_type |-> instrument_type,
     nii_contribution |-> nii_contribution,
     breakdown_value |-> breakdown_value]

\* the NII driver record of a loan (income) or a deposit (expense) from its flows
NiiDriverOf(scenario_name, row, cfs, today_) ==
    [err |-> cfs.err,
     recs |-> <<NiiDriverRecord(scenario_name, InstrumentId(row.id, ""), row.type,
                    IF row.kind = "loan" THEN HorizonSum(cfs.cfs, today_)
                    ELSE -HorizonAbsSum(cfs.cfs, today_),
                    get_bucket(IF row.next_repricing_date # NoDate
                               THEN row.next_repricing_date ELSE row.maturity_date,
                               today_, nii_buckets_def))>>]

\* the interest of one swap leg at rate over the part of the horizon the swap
\* covers; nothing for a swap that is not active
LegNii(derivative, today_, rate) ==
    IF ActiveForNii(derivative, today_)
    THEN MulDiv(Accrual(derivative.notional, rate, 1),
                Min(365, Min(derivative.end_date, today_ + NII_HORIZON_DAYS) - today_),
                365)
    ELSE 0

\* the NII driver records of one derivative
NiiDriverLegs(scenario_name, derivative, curve, today_) ==
    LET Leg(leg, type, sign, rate) ==
            NiiDriverRecord(scenario_name, InstrumentId(derivative.id, leg), type,
                            sign * LegNii(derivative, today_, rate),
                            get_bucket(derivative.end_date, today_, nii_buckets_def))
        Fixed(type, sign) == Leg("_fixed", type, sign, OrZero(derivative.fixed_rate))
        Floating(type, sign) ==
            Leg("_floating", type, sign,
                interpolate_rate(curve, 365) + OrZero(derivative.floating_spread))
    IN IF UndatedDerivative(derivative, today_)
       THEN [err |-> "TypeError", recs |-> <<>>]
       ELSE IF derivative.subtype = "Receiver Swap"
       THEN [err |-> "none",
             recs |-> <<Fixed("Derivative (Fixed Asset)", 1),
                        Floating("Derivative (Floating Liability)", -1)>>]
       ELSE IF derivative.subtype = "Payer Swap"
       THEN [err |-> "none",
             recs |-> <<Fixed("Derivative (Fixed Liability)", -1),
                        Floating("Derivative (Floating Asset)", 1)>>]
       ELSE [err |-> "none",
             recs |-> <<Fixed("Derivative (Fixed)", 1),
                        Floating("Derivative (Floating)", -1)>>]

\* the NII driver records of one scenario, from the rows the loops run over
NiiDrivers(scenario_name, loans, deposits, derivatives, curve, today_, assumptions) ==
    [i \in 1..Len(loans) |->
        NiiDriverOf(scenario_name, loans[i],
                    generate_loan_cashflows(loans[i], curve, today_, FALSE,
                                            assumptions.prepayment_rate),
                    today_)]
    \o [i \in 1..Len(deposits) |->
        NiiDriverOf(scenario_name, deposits[i],
                    generate_deposit_cashflows(deposits[i], curve, today_, FALSE,
                        assumptions.nmd_effective_maturity_years,
                        assumptions.nmd_deposit_beta),
                    today_)]
    \o [i \in 1..Len(derivatives) |->
        NiiDriverLegs(scenario_name, derivatives[i], curve, today_)]

\* one cash-flow ladder record
LadderRecord(scenario_name, instrument_id, side, cashflow_date, fixed_component, floating_component, curve, today_) ==
    [scenario |-> scenario_name,
     instrument_id |-> instrument_id,
     asset_liability |-> side,
     cashflow_date |-> cashflow_date,
     fixed_component |-> fixed_component,
     floating_component |-> floating_component,
     total_cashflow |-> fixed_component + floating_component,
     discount_factor |->
         discount_factor(interpolate_rate(curve, cashflow_date - today_),
                         cashflow_date - today_),
     pv |-> FlowPv(<<cashflow_date, fixed_component + floating_component>>,
                   curve, today_)]

\* the ladder records of a derivative the loop does not skip, from the flows of
\* its two legs
LadderLegs(scenario_name, derivative, fixed_cfs, floating_cfs, curve, today_) ==
    [err |-> FirstErr(<<fixed_cfs.err, floating_cfs.err>>),
     recs |->
         [i \in 1..Len(fixed_cfs.cfs) |->
             LadderRecord(scenario_name, InstrumentId(derivative.id, "_fixed"),
                          IF derivative.subtype = "Payer Swap" THEN "L" ELSE "A",
                          fixed_cfs.cfs[i][1], fixed_cfs.cfs[i][2], 0, curve, today_)]
         \o [i \in 1..Len(floating_cfs.cfs) |->
             LadderRecord(scenario_name, InstrumentId(derivative.id, "_floating"),
                          IF derivative.subtype = "Receiver Swap" THEN "L" ELSE "A",
                          floating_cfs.cfs[i][1], 0, floating_cfs.cfs[i][2], curve,
                          today_)]]

\* the cash-flow ladder records of the derivatives of one scenario
LadderDerivatives(scenario_name, derivatives, curve, today_) ==
    [i \in 1..Len(derivatives) |->
        IF UndatedDerivative(derivatives[i], today_)
        THEN [err |-> "TypeError", recs |-> <<>>]
        ELSE IF SkippedByDrivers(derivatives[i], today_)
        THEN [err |-> "none", recs |-> <<>>]
        ELSE LadderLegs(scenario_name, derivatives[i],
                        generate_fixed_leg_cashflows(derivatives[i], curve, today_),
                        generate_floating_leg_cashflows(derivatives[i], curve, today_),
                        curve, today_)]

\* the ladder record of one flow of a loan or a deposit: the split of the flow
\* into a fixed and a floating component by instrument type
LadderFlow(scenario_name, row, side, flow, curve, today_) ==
    IF row.type \in {"Fixed Rate Loan", "HTM Securities", "CD", "Wholesale Funding"}
    THEN LadderRecord(scenario_name, InstrumentId(row.id, ""), side, flow[1],
                      flow[2], 0, curve, today_)
    ELSE IF row.type = "Floating Rate Loan"
    THEN LadderRecord(scenario_name, InstrumentId(row.id, ""), side, flow[1],
                      Accrual(row.notional, OrZero(row.spread),
                              get_accrual_period(row.payment_frequency)),
                      Accrual(row.notional, interpolate_rate(curve, flow[1] - today_),
                              get_accrual_period(row.payment_frequency)),
                      curve, today_)
    ELSE IF row.type \in {"Checking", "Savings"}
    THEN LadderRecord(scenario_name, InstrumentId(row.id, ""), side, flow[1], 0,
                      Accrual(row.balance, interpolate_rate(curve, flow[1] - today_),
                              get_accrual_period(row.payment_frequency)),
                      curve, today_)
    ELSE LadderRecord(scenario_name, InstrumentId(row.id, ""), side, flow[1], 0,
                      flow[2], curve, today_)

\* the ladder records of a loan or a deposit from its flows
LadderOf(scenario_name, row, side, cfs, curve, today_) ==
    [err |-> cfs.err,
     recs |-> [i \in 1..Len(cfs.cfs) |->
                  LadderFlow(scenario_name, row, side, cfs.cfs[i], curve, today_)]]

\* the cash-flow ladder records of the loans and deposits of one scenario
LadderBalanceSheet(scenario_name, loans, deposits, curve, today_, assumptions) ==
    [i \in 1..Len(loans) |->
        LadderOf(scenario_name, loans[i], "A",
                 generate_loan_cashflows(loans[i], curve, today_, TRUE,
                                         assumptions.prepayment_rate),
                 curve, today_)]
    \o [i \in 1..Len(deposits) |->
        LadderOf(scenario_name, deposits[i], "L",
                 generate_deposit_cashflows(deposits[i], curve, today_, TRUE,
                     assumptions.nmd_effective_maturity_years,
                     assumptions.nmd_deposit_beta),
                 curve, today_)]

\* repricing-bucket records that are all saved with position 'asset'
RepricingBucketsAllAssets(portfolio, today_) ==
    LET loans == LoansOf(portfolio)
        deposits == DepositsOf(portfolio)
        derivatives == DerivativesOf(portfolio)
        Rec(add, type, id) ==
            [scenario |-> "Base Case",
             bucket |-> add.bucket,
             instrument_type |-> type,
             instrument_id |-> id,
             notional |-> add.amount,
             position |-> "asset"]
        Plain(part, row) ==
            [err |-> part.err,
             recs |-> [i \in 1..Len(part.adds) |->
                          Rec(part.adds[i], row.type, InstrumentId(row.id, ""))]]
        Legs(part, derivative) ==
            [err |-> part.err,
             recs |-> [i \in 1..Len(part.adds) |->
                          IF i = 1
                          THEN Rec(part.adds[i], "Derivative (Fixed)",
                                   InstrumentId(derivative.id, "_fixed"))
                          ELSE Rec(part.adds[i], "Derivative (Floating)",
                                   InstrumentId(derivative.id, "_floating"))]]
    IN [i \in 1..Len(loans) |-> Plain(NiiGapLoan(loans[i], today_), loans[i])]
       \o [i \in 1..Len(deposits) |->
               Plain(NiiGapDeposit(deposits[i], today_), deposits[i])]
       \o [i \in 1..Len(derivatives) |->
               Legs(NiiGapDerivative(derivatives[i], today_), derivatives[i])]

\* the repricing-bucket records: one per addition of the repricing loops, which
\* repeat the loops of the NII gap table
RepricingBuckets(portfolio, today_) ==
    LET loans == LoansOf(portfolio)
        deposits == DepositsOf(portfolio)
        derivatives == DerivativesOf(portfolio)
        Rec(add, type, id) ==
            [scenario |-> "Base Case",
             bucket |-> add.bucket,
             instrument_type |-> type,
             instrument_id |-> id,
             notional |-> add.amount,
             position |-> IF add.side = "assets" THEN "asset" ELSE "liability"]
        Plain(part, row) ==
            [err |-> part.err,
             recs |-> [i \in 1..Len(part.adds) |->
                          Rec(part.adds[i], row.type, InstrumentId(row.id, ""))]]
        Legs(part, derivative) ==
            [err |-> part.err,
             recs |-> [i \in 1..Len(part.adds) |->
                          IF i = 1
                          THEN Rec(part.adds[i], "Derivative (Fixed)",
                                   InstrumentId(derivative.id, "_fixed"))
                          ELSE Rec(part.adds[i], "Derivative (Floating)",
                                   InstrumentId(derivative.id, "_floating"))]]
    IN [i \in 1..Len(loans) |-> Plain(NiiGapLoan(loans[i], today_), loans[i])]
       \o [i \in 1..Len(deposits) |->
               Plain(NiiGapDeposit(deposits[i], today_), deposits[i])]
       \o [i \in 1..Len(derivatives) |->
               Legs(NiiGapDerivative(derivatives[i], today_), derivatives[i])]

\* the portfolio-composition records
PortfolioComposition(portfolio, today_) ==
    LET loans == LoansOf({r \in portfolio : r.kind = "loan" /\ r.type # "Cash"})
        deposits == DepositsOf({r \in portfolio : r.kind = "deposit" /\ r.type # "Equity"})
        derivatives == DerivativesOf(portfolio)
    IN [i \in 1..Len(loans) |->
           [timestamp |-> today_, instrument_type |-> "Loan",
            category |-> loans[i].type, total_amount |-> loans[i].notional,
            average_interest_rate |-> loans[i].interest_rate]]
       \o [i \in 1..Len(deposits) |->
           [timestamp |-> today_, instrument_type |-> "Deposit",
            category |-> deposits[i].type, total_amount |-> deposits[i].balance,
            average_interest_rate |-> deposits[i].interest_rate]]
       \o [i \in 1..Len(derivatives) |->
           [timestamp |-> today_, instrument_type |-> "Derivative",
            category |-> derivatives[i].type, total_amount |-> derivatives[i].notional,
            average_interest_rate |-> derivatives[i].fixed_rate]]

----------------------------------------------------------------------------
(* The valuation run is idle in the specifications that apply one function *)

ClockStart == 1000

\* schemas.CalculationAssumptions with its field defaults
DefaultAssumptions ==
    [nmd_effective_maturity_years |-> 5, nmd_deposit_beta |-> 50, prepayment_rate |-> 0]

\* the tables of crud_dashboard and the module's _scenario_history, all empty
EmptyTables ==
    [yield_curves |-> <<>>, dashboard_metrics |-> <<>>, eve_drivers |-> <<>>,
     nii_drivers |-> <<>>, repricing_buckets |-> <<>>, portfolio_composition |-> <<>>,
     cashflow_ladder |-> <<>>, scenario_history |-> <<>>]

RunIdle ==
    /\ clock = ClockStart
    /\ db = {}
    /\ pc = "idle"
    /\ today = NoDate
    /\ snap = {}
    /\ scen = <<>>
    /\ gap = <<>>
    /\ outp = EmptyTables
    /\ err = "none"
    /\ asm = DefaultAssumptions
    /\ env = [ticks |-> 0, commits |-> 0]

FnInit ==
    /\ fn = "none"
    /\ args = <<>>
    /\ ret = <<>>

----------------------------------------------------------------------------
(* SpecBucket: get_bucket applied to event dates around every bucket bound *)

BucketSlack == 2
MaxToday == 2

BucketTables == {nii_buckets_def, eve_buckets_def}

BucketAnchors == {0} \cup UNION {{b[i][2] : i \in 1..Len(b)} \ {-1} : b \in BucketTables}

DayOffsets == {a + k : a \in BucketAnchors, k \in (-BucketSlack)..BucketSlack}

CallGetBucketDated ==
    \E t \in ClockStart..(ClockStart + MaxToday), o \in DayOffsets, b \in BucketTables :
        /\ fn = "none"
        /\ fn' = "get_bucket"
        /\ args' = [item_date |-> t + o, today |-> t, buckets |-> b]
        /\ ret' = get_bucket(t + o, t, b)
        /\ UNCHANGED runVars

CallGetBucketNull ==
    \E t \in ClockStart..(ClockStart + MaxToday), b \in BucketTables :
        /\ fn = "none"
        /\ fn' = "get_bucket"
        /\ args' = [item_date |-> NoDate, today |-> t, buckets |-> b]
        /\ ret' = get_bucket(NoDate, t, b)
        /\ UNCHANGED runVars

InitBucket == FnInit /\ RunIdle
NextBucket == CallGetBucketDated \/ CallGetBucketNull
SpecBucket == InitBucket /\ [][NextBucket]_vars

\* C1: get_bucket is total: for every event date, a null one included, it returns a
\* key of the table passed in, and a null date returns that table's catch-all label.
C1_BucketTotal ==
    fn = "get_bucket" =>
        /\ ret \in BucketKeys(args.buckets)
        /\ (args.item_date = NoDate => ret = CatchAll(args.buckets))

\* the bucket the specification names for a dated event: the smallest bound, the
\* sentinel aside, that is at least the days to the event; the largest bound if none
SpecifiedBucket(days, buckets) ==
    LET real == {i \in 1..Len(buckets) : buckets[i][2] # -1}
        fits == {i \in real : buckets[i][2] >= days}
        pick == IF fits # {}
                THEN CHOOSE i \in fits : \A j \in fits : buckets[i][2] <= buckets[j][2]
                ELSE CHOOSE i \in real : \A j \in real : buckets[i][2] >= buckets[j][2]
    IN buckets[pick][1]

\* C9: for a non-null event date get_bucket returns the first bucket, in ascending
\* order of bound and skipping the sentinel, whose bound is at least the days to the
\* event, the largest-bound bucket if none is, and never the sentinel's label.
C9_BucketFirstFit ==
    (fn = "get_bucket" /\ args.item_date # NoDate) =>
        /\ ret = SpecifiedBucket(args.item_date - args.today, args.buckets)
        /\ ret # CatchAll(args.buckets)

\* a dated event beyond the largest bound was bucketed
C9_Witness ==
    /\ fn = "get_bucket"
    /\ args.item_date # NoDate
    /\ args.item_date - args.today > 365 * 100
    /\ ret = ">10 Years"

----------------------------------------------------------------------------
(* SpecCurve: interpolate_rate applied to the six scenario curves *)

InterpSlack == 3
DayStride == 20
LongestTenorDays == 365 * 30

\* every day within InterpSlack of a tenor point, and every DayStride-th day and its
\* successor in between
DaySamples ==
    {d \in (-InterpSlack)..(LongestTenorDays + InterpSlack) :
        \/ d % DayStride \in {0, 1}
        \/ \E t \in TenorSet : Abs(d - tenor_map[t]) <= InterpSlack}

CallInterpolate ==
    \E i \in 1..Len(ScenarioNames), d \in DaySamples :
        /\ fn = "none"
        /\ fn' = "interpolate_rate"
        /\ args' = [scenario |-> ScenarioNames[i],
                    yield_curve |-> ScenarioCurve(ScenarioNames[i]),
                    days |-> d]
        /\ ret' = interpolate_rate(ScenarioCurve(ScenarioNames[i]), d)
        /\ UNCHANGED runVars

InitCurve == FnInit /\ RunIdle
NextCurve == CallInterpolate
SpecCurve == InitCurve /\ [][NextCurve]_vars

\* C10: interpolate_rate is the piecewise-linear function through the 12 tenor
\* points: the shortest-tenor rate up to 30 days (days <= 0 included), the
\* longest-tenor rate from 10950 days on, the tenor's own rate at a tenor's day count,
\* and strictly between two adjacent tenors the point of the chord through them
\* (to the rounding of the fixed point), which lies between the two rates and moves
\* with the days in the direction of the curve.
C10_InterpolatePiecewiseLinear ==
    fn = "interpolate_rate" =>
        LET c == args.yield_curve
            d == args.days
        IN /\ (d <= 30 => ret = c["1M"])
           /\ (d >= 10950 => ret = c["30Y"])
           /\ \A t \in TenorSet : (d = tenor_map[t] => ret = c[t])
           /\ \A i \in 1..(Len(Tenors) - 1) :
                LET d1 == tenor_map[Tenors[i]]
                    d2 == tenor_map[Tenors[i + 1]]
                    r1 == c[Tenors[i]]
                    r2 == c[Tenors[i + 1]]
                    chord == r1 * (d2 - d1) + (r2 - r1) * (d - d1)
                    next == interpolate_rate(c, d + 1)
                IN (d1 < d /\ d < d2) =>
                    /\ ret * (d2 - d1) <= chord
                    /\ chord < (ret + 1) * (d2 - d1)
                    /\ Min(r1, r2) <= ret /\ ret <= Max(r1, r2)
                    /\ (r2 >= r1 => next >= ret)
                    /\ (r2 <= r1 => next <= ret)

\* a rate was interpolated strictly inside a bracket whose rates fall with the tenor
C10_Witness ==
    /\ fn = "interpolate_rate"
    /\ args.scenario = "Short Rates Up +100bps"
    /\ 90 < args.days /\ args.days < 180
    /\ args.yield_curve["6M"] < ret /\ ret < args.yield_curve["3M"]

----------------------------------------------------------------------------
(* The rows the instrument tables hold in the checked runs, dated around ClockStart *)

FixedLoan ==
    Loan(1, "Fixed Rate Loan", 10000, 50000, ClockStart - 100, ClockStart + 700,
         NoRate, NoFreq, NoDate, "Annually")

FloatingLoan ==
    Loan(2, "Floating Rate Loan", 8000, NoRate, ClockStart - 30, ClockStart + 500,
         10000, "Semi-Annually", ClockStart + 60, "Quarterly")

\* a floating loan whose rate column is filled
QuotedFloatingLoan ==
    Loan(3, "Floating Rate Loan", 8000, 30000, ClockStart - 30, ClockStart + 400,
         10000, "Annually", ClockStart + 40, "Quarterly")

\* maturity_date is a nullable column
NoMaturityLoan ==
    Loan(4, "Fixed Rate Loan", 5000, 50000, ClockStart - 100, NoDate,
         NoRate, NoFreq, NoDate, "Annually")

\* repricing_frequency is a free string column
WeeklyLoan ==
    Loan(5, "Floating Rate Loan", 5000, NoRate, ClockStart - 30, ClockStart + 500,
         10000, "Weekly", ClockStart + 60, "Quarterly")

TermDeposit ==
    Deposit(1, "CD", 6000, 30000, ClockStart - 50, ClockStart + 300,
            NoFreq, NoDate, "Semi-Annually")

SavingsDeposit ==
    Deposit(2, "Savings", 4000, 10000, ClockStart - 400, NoDate,
            "Monthly", ClockStart + 20, "Monthly")

PayerSwap ==
    Derivative(1, "Interest Rate Swap", "Payer Swap", 5000, ClockStart - 200,
               ClockStart + 600, 45000, 0, "Annually", "Quarterly")

\* starts after the run's date
ForwardSwap ==
    Derivative(2, "Interest Rate Swap", "Receiver Swap", 5000, ClockStart + 50,
               ClockStart + 800, 45000, 0, "Annually", "Semi-Annually")

\* start_date is a nullable column
NoStartSwap ==
    Derivative(3, "Interest Rate Swap", "Payer Swap", 5000, NoDate,
               ClockStart + 600, 45000, 0, "Annually", "Quarterly")

----------------------------------------------------------------------------
(* SpecLoan: generate_loan_cashflows applied to the sample loans *)

MaxLoanToday == 2
CprStep == 2500
CprSteps == 2

\* fixed-rate loans paying once a year and maturing 365 days after origination
OneYearLoans ==
    {Loan(10, "Fixed Rate Loan", notional, interest_rate, origination_date,
          origination_date + 365, NoRate, NoFreq, NoDate, "Annually") :
        notional \in {2000, 10000}, interest_rate \in {0, 50000, 72500},
        origination_date \in {ClockStart, ClockStart + 1}}

\* matures on the day after the first day a schedule is asked for
MaturingLoan ==
    Loan(13, "Fixed Rate Loan", 5000, 50000, ClockStart - 364, ClockStart + 1,
         NoRate, NoFreq, NoDate, "Annually")

SampleLoans ==
    {FixedLoan, FloatingLoan, QuotedFloatingLoan, NoMaturityLoan, WeeklyLoan,
     MaturingLoan} \cup OneYearLoans
SampleCprs == {k * CprStep : k \in 0..CprSteps}

CallLoanCashflows ==
    \E loan \in SampleLoans, name \in DOMAIN INTEREST_RATE_SCENARIOS,
       t \in ClockStart..(ClockStart + MaxLoanToday),
       include_principal \in BOOLEAN, prepayment_rate \in SampleCprs :
        /\ fn = "none"
        /\ fn' = "generate_loan_cashflows"
        /\ args' = [loan |-> loan, scenario |-> name, today |-> t,
                    include_principal |-> include_principal,
                    prepayment_rate |-> prepayment_rate]
        /\ ret' = [out |-> generate_loan_cashflows(loan, ScenarioCurve(name), t,
                                                   include_principal, prepayment_rate),
                   periods |-> LoanSchedule(loan, ScenarioCurve(name), t,
                                            include_principal, prepayment_rate).posted]
        /\ UNCHANGED runVars

InitLoan == FnInit /\ RunIdle
NextLoan == CallLoanCashflows
SpecLoan == InitLoan /\ [][NextLoan]_vars

\* C7: for a floating-rate loan, two consecutive payment periods with no repricing
\* date between them accrue interest at the same rate, the one set at the last reset.
C7_RateHeldBetweenResets ==
    (/\ fn = "generate_loan_cashflows"
     /\ args.loan.type = "Floating Rate Loan"
     /\ ret.out.err = "none") =>
        \A k \in 1..(Len(ret.periods) - 1) :
            ~ret.periods[k + 1].reset => ret.periods[k + 1].rate = ret.periods[k].rate

\* C28: in a full-life schedule of a loan maturing after today, for every
\* prepayment rate, the flows that are not interest sum to the loan's notional
C28_PrincipalConserved ==
    (/\ fn = "generate_loan_cashflows"
     /\ args.include_principal
     /\ args.loan.maturity_date # NoDate
     /\ args.loan.maturity_date > args.today
     /\ ret.out.err = "none") =>
        SumSeq([i \in 1..Len(ret.out.cfs) |-> ret.out.cfs[i][2]])
            - SumSeq([i \in 1..Len(ret.periods) |-> ret.periods[i].interest])
            = args.loan.notional

\* C15: a fixed-rate loan of notional N and rate r paying annually, originated
\* today and maturing 365 days later, with no prepayment: with
\* include_principal false the schedule is exactly one flow of N x r on the payment
\* date (today + 365); with include_principal true every flow falls on the
\* maturity date and the flows sum to N x (1 + r)
C15_OneYearLoanSchedule ==
    (/\ fn = "generate_loan_cashflows"
     /\ args.loan \in OneYearLoans
     /\ args.loan.origination_date = args.today
     /\ args.prepayment_rate = 0) =>
        /\ ret.out.err = "none"
        /\ ~args.include_principal =>
               /\ Len(ret.out.cfs) = 1
               /\ ret.out.cfs[1][1] = args.today + 365
               /\ ret.out.cfs[1][2] * RateUnit
                      = args.loan.notional * args.loan.interest_rate
        /\ args.include_principal =>
               /\ \A i \in 1..Len(ret.out.cfs) :
                      ret.out.cfs[i][1] = args.loan.maturity_date
               /\ (SumSeq([i \in 1..Len(ret.out.cfs) |-> ret.out.cfs[i][2]])
                      - args.loan.notional) * RateUnit
                      = args.loan.notional * args.loan.interest_rate
               /\ (args.loan.notional = 10000 /\ args.loan.interest_rate = 50000) =>
                      SumSeq([i \in 1..Len(ret.out.cfs) |-> ret.out.cfs[i][2]]) = 10500

\* the full-life schedule of a 5% one-year loan originated today was generated
C15_Witness ==
    /\ fn = "generate_loan_cashflows"
    /\ args.loan \in OneYearLoans
    /\ args.loan.origination_date = args.today
    /\ args.loan.interest_rate = 50000
    /\ args.prepayment_rate = 0
    /\ args.include_principal
    /\ Len(ret.out.cfs) = 2

\* C8: with CPR > 0 each payment period reduces the balance by
\* balance x (1 - (1 - CPR) ^ period_fraction) before the next accrual, with
\* principal and without it, and the residual posts at maturity when principal is
\* requested.
C8_PrepaymentShrinksBalance ==
    (/\ fn = "generate_loan_cashflows"
     /\ args.prepayment_rate > 0
     /\ ret.out.err = "none") =>
        LET ppy == get_periods_per_year(args.loan.payment_frequency)
            Shrunk(b) ==
                Max(0, b - (b * prepayment_per_period(args.prepayment_rate, ppy))
                               \div CprUnit)
            n == Len(ret.periods)
        IN /\ \A k \in 1..(n - 1) :
                  /\ ret.periods[k + 1].balance = Shrunk(ret.periods[k].balance)
                  /\ ret.periods[k + 1].interest =
                         Accrual(Shrunk(ret.periods[k].balance), ret.periods[k + 1].rate, ppy)
           /\ (args.include_principal /\ n > 0 /\ Shrunk(ret.periods[n].balance) > 0) =>
                  ret.out.cfs[Len(ret.out.cfs)] =
                      <<args.loan.maturity_date, Shrunk(ret.periods[n].balance)>>

----------------------------------------------------------------------------
(* SpecRun: one call of generate_dashboard_data_from_db, step by step, beside a
   clock that advances and other sessions that commit *)

MaxTicks == 1
MaxCommits == 1
MAX_SCENARIO_HISTORY == 10

\* a loan that pays at maturity only and has no maturity date
BulletLoan ==
    Loan(6, "Fixed Rate Loan", 5000, 50000, ClockStart - 100, NoDate,
         NoRate, NoFreq, NoDate, NoFreq)

InitialPortfolios ==
    { {FixedLoan, TermDeposit, PayerSwap},
      {FloatingLoan, SavingsDeposit, ForwardSwap},
      {FixedLoan, NoMaturityLoan, TermDeposit},
      {FixedLoan, WeeklyLoan},
      {TermDeposit, NoStartSwap},
      {FixedLoan, BulletLoan} }

\* the rows other sessions insert while a run is in progress
InsertedRows == {QuotedFloatingLoan, SavingsDeposit, ForwardSwap}

SampleAssumptions ==
    {DefaultAssumptions,
     [nmd_effective_maturity_years |-> 1, nmd_deposit_beta |-> 100,
      prepayment_rate |-> CprStep]}

Running == pc \notin {"idle", "raised", "returned"}

\* the run leaves the function with an exception
Raise(exception) == pc' = "raised" /\ err' = exception

\* an expired row of the first query whose row another session deleted
Stale == \E r \in snap : r \notin db

\* a sensitivity cut to 2 places instead of rounded
SensitivityTruncated(base, up) ==
    IF base # 0
    THEN (IF (up - base < 0) # (base < 0) THEN -1 ELSE 1)
         * ((Abs(up - base) * 10000) \div Abs(base))
    ELSE 0

\* round(((up - base) / base) * 100, 2) in hundredths of a percent, 0 for a base
\* of 0; round() goes to the nearest hundredth and to the even one from a tie
Sensitivity(base, up) ==
    LET q == (Abs(up - base) * 10000) \div Abs(base)
        r == (Abs(up - base) * 10000) % Abs(base)
    IN IF base # 0
       THEN (IF (up - base < 0) # (base < 0) THEN -1 ELSE 1)
            * (IF 2 * r > Abs(base) \/ (2 * r = Abs(base) /\ q % 2 = 1) THEN q + 1 ELSE q)
       ELSE 0

\* the value the scenario loop recorded under a name
ScenarioMetric(name, field) ==
    LET i == CHOOSE k \in 1..Len(scen) : scen[k].scenario_name = name
    IN scen[i].metrics[field]

\* date.today() and the three queries at the top of the function
StartRun ==
    \E assumptions \in SampleAssumptions :
        /\ pc = "idle"
        /\ pc' = "scenarios"
        /\ today' = clock
        /\ snap' = db
        /\ asm' = assumptions
        /\ UNCHANGED <<fnVars, clock, db, scen, gap, outp, err, env>>

\* what one pass of the scenario loop does with the metrics of its scenario
RecordScenario(name, metrics) ==
    IF metrics.err # "none"
    THEN Raise(metrics.err) /\ UNCHANGED scen
    ELSE /\ scen' = Append(scen, [scenario_name |-> name, today |-> clock,
                                   portfolio |-> db, metrics |-> metrics])
         /\ pc' = IF Len(scen) + 1 = Len(ScenarioNames) THEN "yield_curves"
                  ELSE "scenarios"
         /\ UNCHANGED err

\* one pass of the scenario loop: calculate_nii_and_eve_for_curve queries the
\* tables and reads the clock itself
ScenarioStep ==
    /\ pc = "scenarios"
    /\ RecordScenario(ScenarioNames[Len(scen) + 1],
                      calculate_nii_and_eve_for_curve(
                          db, clock, ScenarioCurve(ScenarioNames[Len(scen) + 1]), asm))
    /\ UNCHANGED <<fnVars, clock, db, today, snap, gap, outp, asm, env>>

\* a save of the yield curves that also deletes the rows the run read
SaveYieldCurvesAndDeleteRows ==
    /\ pc = "yield_curves"
    /\ pc' = "gap"
    /\ db' = db \ snap
    /\ UNCHANGED <<fnVars, clock, today, snap, scen, gap, outp, err, asm, env>>

\* delete_yield_curves and save_yield_curves
SaveYieldCurves ==
    /\ pc = "yield_curves"
    /\ pc' = "gap"
    /\ outp' = [outp EXCEPT !.yield_curves =
                   [k \in 1..(Len(ScenarioNames) * Len(Tenors)) |->
                       LET name == ScenarioNames[((k - 1) \div Len(Tenors)) + 1]
                           tenor == Tenors[((k - 1) % Len(Tenors)) + 1]
                       IN [scenario |-> name, tenor |-> tenor,
                           rate |-> ScenarioCurve(name)[tenor]]]]
    /\ UNCHANGED <<fnVars, clock, db, today, snap, scen, gap, err, asm, env>>

\* what the run does with the tables calculate_gap_analysis returned
RecordGap(result) ==
    IF result.err # "none"
    THEN Raise(result.err) /\ UNCHANGED gap
    ELSE /\ gap' = [today |-> clock, portfolio |-> db, result |-> result]
         /\ pc' = "metric"
         /\ UNCHANGED err

\* calculate_gap_analysis queries the tables and reads the clock itself
GapAnalysis ==
    /\ pc = "gap"
    /\ RecordGap(calculate_gap_analysis(db, clock))
    /\ UNCHANGED <<fnVars, clock, db, today, snap, scen, outp, asm, env>>

\* a history step that keeps the oldest points and drops the newest
SaveMetricKeepsOldest ==
    LET base_case_eve == ScenarioMetric("Base Case", "economic_value_of_equity")
        base_case_nii == ScenarioMetric("Base Case", "net_interest_income")
        eve_up == ScenarioMetric("Parallel Up +200bps", "economic_value_of_equity")
        nii_up == ScenarioMetric("Parallel Up +200bps", "net_interest_income")
        eve_down == ScenarioMetric("Parallel Down -200bps", "economic_value_of_equity")
        point == [base |-> base_case_eve, up200 |-> eve_up, down200 |-> eve_down]
        history == Append(outp.scenario_history, point)
    IN /\ pc = "metric"
       /\ pc' = "eve_drivers"
       /\ today' = clock
       /\ outp' = [outp EXCEPT
               !.scenario_history =
                   IF Len(history) > MAX_SCENARIO_HISTORY
                   THEN SubSeq(history, 1, MAX_SCENARIO_HISTORY)
                   ELSE history,
               !.dashboard_metrics = Append(@,
                   [timestamp |-> clock,
                    scenario |-> "Base Case",
                    eve_value |-> base_case_eve,
                    nii_value |-> base_case_nii,
                    eve_sensitivity |-> Sensitivity(base_case_eve, eve_up),
                    nii_sensitivity |-> Sensitivity(base_case_nii, nii_up),
                    total_assets_value |->
                        ScenarioMetric("Base Case", "total_assets_value"),
                    total_liabilities_value |->
                        ScenarioMetric("Base Case", "total_liabilities_value"),
                    portfolio_value |->
                        ScenarioMetric("Base Case", "total_assets_value")
                        + ScenarioMetric("Base Case", "total_liabilities_value")
                        + ScenarioMetric("Base Case", "total_derivatives_value")])]
       /\ UNCHANGED <<fnVars, clock, db, snap, scen, gap, err, asm, env>>

\* the history point, the second date.today() and save_dashboard_metric
SaveMetric ==
    LET base_case_eve == ScenarioMetric("Base Case", "economic_value_of_equity")
        base_case_nii == ScenarioMetric("Base Case", "net_interest_income")
        eve_up == ScenarioMetric("Parallel Up +200bps", "economic_value_of_equity")
        nii_up == ScenarioMetric("Parallel Up +200bps", "net_interest_income")
        eve_down == ScenarioMetric("Parallel Down -200bps", "economic_value_of_equity")
        point == [base |-> base_case_eve, up200 |-> eve_up, down200 |-> eve_down]
        history == Append(outp.scenario_history, point)
    IN /\ pc = "metric"
       /\ pc' = "eve_drivers"
       /\ today' = clock
       /\ outp' = [outp EXCEPT
               !.scenario_history =
                   IF Len(history) > MAX_SCENARIO_HISTORY
                   THEN SubSeq(history, Len(history) - MAX_SCENARIO_HISTORY + 1,
                               Len(history))
                   ELSE history,
               !.dashboard_metrics = Append(@,
                   [timestamp |-> clock,
                    scenario |-> "Base Case",
                    eve_value |-> base_case_eve,
                    nii_value |-> base_case_nii,
                    eve_sensitivity |-> Sensitivity(base_case_eve, eve_up),
                    nii_sensitivity |-> Sensitivity(base_case_nii, nii_up),
                    total_assets_value |->
                        ScenarioMetric("Base Case", "total_assets_value"),
                    total_liabilities_value |->
                        ScenarioMetric("Base Case", "total_liabilities_value"),
                    portfolio_value |->
                        ScenarioMetric("Base Case", "total_assets_value")
                        + ScenarioMetric("Base Case", "total_liabilities_value")
                        + ScenarioMetric("Base Case", "total_derivatives_value")])]
       /\ UNCHANGED <<fnVars, clock, db, snap, scen, gap, err, asm, env>>

\* the rows the driver loops do not pass over: no Cash loan, no Equity deposit
Valued(portfolio) ==
    {r \in portfolio : /\ ~(r.kind = "loan" /\ r.type = "Cash")
                       /\ ~(r.kind = "deposit" /\ r.type = "Equity")}

\* the per-instrument outcomes of a builder over the scenarios, in loop order
OverScenarios(parts_of) ==
    Flatten([i \in 1..Len(ScenarioNames) |-> parts_of[ScenarioNames[i]]])

\* a step that builds records from the rows of the first query and saves them;
\* tables_on_error are the tables the step leaves when it raises
SaveStep(at, next, table, parts, tables_on_error) ==
    /\ pc = at
    /\ IF Stale
       THEN Raise("ObjectDeletedError") /\ outp' = tables_on_error
       ELSE IF FirstErr([i \in 1..Len(parts) |-> parts[i].err]) # "none"
       THEN /\ Raise(FirstErr([i \in 1..Len(parts) |-> parts[i].err]))
            /\ outp' = tables_on_error
       ELSE /\ pc' = next
            /\ outp' = [outp EXCEPT ![table] =
                           Flatten([i \in 1..Len(parts) |-> parts[i].recs])]
            /\ UNCHANGED err
    /\ UNCHANGED <<fnVars, clock, db, today, snap, scen, gap, asm, env>>

SaveEveDrivers ==
    SaveStep("eve_drivers", "nii_drivers", "eve_drivers",
             OverScenarios([name \in DOMAIN INTEREST_RATE_SCENARIOS |->
                 EveDrivers(name, LoansOf(Valued(snap)), DepositsOf(Valued(snap)),
                            DerivativesOf(snap), ScenarioCurve(name), today, asm)]),
             outp)

SaveNiiDrivers ==
    SaveStep("nii_drivers", "repricing_buckets", "nii_drivers",
             OverScenarios([name \in DOMAIN INTEREST_RATE_SCENARIOS |->
                 NiiDrivers(name, LoansOf(Valued(snap)), DepositsOf(Valued(snap)),
                            DerivativesOf(snap), ScenarioCurve(name), today, asm)]),
             outp)

SaveRepricingBuckets ==
    SaveStep("repricing_buckets", "portfolio_composition", "repricing_buckets",
             RepricingBuckets(snap, today), outp)

SavePortfolioComposition ==
    SaveStep("portfolio_composition", "cashflow_ladder", "portfolio_composition",
             <<[err |-> "none", recs |-> PortfolioComposition(snap, today)]>>, outp)

\* delete_all_cashflow_ladder commits before the records are built
SaveCashflowLadder ==
    SaveStep("cashflow_ladder", "return", "cashflow_ladder",
             OverScenarios([name \in DOMAIN INTEREST_RATE_SCENARIOS |->
                 LadderBalanceSheet(name, LoansOf(snap), DepositsOf(snap),
                                    ScenarioCurve(name), today, asm)
                 \o LadderDerivatives(name, DerivativesOf(snap), ScenarioCurve(name),
                                      today)]),
             [outp EXCEPT !.cashflow_ladder = <<>>])

\* the fields of schemas.DashboardData; none has a default
DashboardDataFields ==
    {"eve_sensitivity", "nii_sensitivity", "portfolio_value", "yield_curve_data",
     "scenario_data", "total_loans", "total_deposits", "total_derivatives",
     "total_assets_value", "total_liabilities_value", "net_interest_income",
     "economic_value_of_equity", "nii_repricing_gap", "eve_maturity_gap",
     "eve_scenarios", "nii_scenarios", "loan_composition", "deposit_composition",
     "derivative_composition", "current_assumptions"}

\* the keyword arguments of the return statement
ReturnedFields ==
    {"eve_sensitivity", "nii_sensitivity", "portfolio_value", "yield_curve_data",
     "scenario_data", "total_assets_value", "total_liabilities_value",
     "net_interest_income", "economic_value_of_equity", "nii_repricing_gap",
     "eve_maturity_gap", "eve_scenarios", "nii_scenarios", "current_assumptions"}

\* return schemas.DashboardData(...): the model validates its fields when it is
\* built, and a missing required field raises ValidationError
ReturnDashboardData ==
    /\ pc = "return"
    /\ IF DashboardDataFields \subseteq ReturnedFields
       THEN pc' = "returned" /\ UNCHANGED err
       ELSE Raise("ValidationError")
    /\ UNCHANGED <<fnVars, clock, db, today, snap, scen, gap, outp, asm, env>>

\* midnight passes while the run is in progress
Tick ==
    /\ Running
    /\ env.ticks < MaxTicks
    /\ clock' = clock + 1
    /\ env' = [env EXCEPT !.ticks = @ + 1]
    /\ UNCHANGED <<fnVars, db, pc, today, snap, scen, gap, outp, err, asm>>

\* another session commits create_loan, create_deposit or create_derivative
CommitCreate ==
    \E row \in InsertedRows \ db :
        /\ Running
        /\ env.commits < MaxCommits
        /\ \A r \in db : r.kind = row.kind => r.id # row.id
        /\ db' = db \cup {row}
        /\ env' = [env EXCEPT !.commits = @ + 1]
        /\ UNCHANGED <<fnVars, clock, pc, today, snap, scen, gap, outp, err, asm>>

\* another session commits delete_loan, delete_deposit or delete_derivative
CommitDelete ==
    \E row \in db :
        /\ Running
        /\ env.commits < MaxCommits
        /\ db' = db \ {row}
        /\ env' = [env EXCEPT !.commits = @ + 1]
        /\ UNCHANGED <<fnVars, clock, pc, today, snap, scen, gap, outp, err, asm>>

InitRun ==
    /\ FnInit
    /\ clock = ClockStart
    /\ db \in InitialPortfolios
    /\ pc = "idle"
    /\ today = NoDate
    /\ snap = {}
    /\ scen = <<>>
    /\ gap = <<>>
    /\ outp = EmptyTables
    /\ err = "none"
    /\ asm = DefaultAssumptions
    /\ env = [ticks |-> 0, commits |-> 0]

NextRun ==
    \/ StartRun
    \/ ScenarioStep
    \/ SaveYieldCurves
    \/ GapAnalysis
    \/ SaveMetric
    \/ SaveEveDrivers
    \/ SaveNiiDrivers
    \/ SaveRepricingBuckets
    \/ SavePortfolioComposition
    \/ SaveCashflowLadder
    \/ ReturnDashboardData
    \/ Tick
    \/ CommitCreate
    \/ CommitDelete

SpecRun == InitRun /\ [][NextRun]_vars

\* C2: per-instrument processing is isolated: a run over a portfolio with one
\* malformed instrument (a null maturity date, a null start date, an unrecognised
\* frequency) does not abort on that instrument; the instrument is skipped, so no
\* run ends with the exception its fields raise
C2_MalformedInstrumentSkipped ==
    pc = "raised" => err \notin {"TypeError", "ZeroDivisionError", "KeyError"}

\* C3: within one run today is read from the clock once: the scenario
\* valuations, the gap analysis and the steps that save the metric, the drivers,
\* the buckets and the ladder all use the same today though midnight passes
C3_TodayReadOnce ==
    Cardinality({scen[i].today : i \in 1..Len(scen)}
                \cup (IF gap = <<>> THEN {} ELSE {gap.today})
                \cup (IF today = NoDate THEN {} ELSE {today})) <= 1

\* C4: a run reads the instrument tables once at its start and values that
\* snapshot in all six scenarios and in the gap analysis, whatever other sessions
\* commit while it runs
C4_OneSnapshotPerRun ==
    /\ \A i \in 1..Len(scen) : scen[i].portfolio = snap
    /\ gap # <<>> => gap.portfolio = snap

\* PV(loan flows) - |PV(deposit flows)| + the net value of the swaps, a payer swap
\* being worth PV(floating leg) - PV(fixed leg) and a receiver swap the reverse
NetExposureEve(loan_parts, deposit_parts, derivative_parts) ==
    SumSeq([i \in 1..Len(loan_parts) |-> loan_parts[i].assets])
    - Abs(SumSeq([i \in 1..Len(deposit_parts) |-> deposit_parts[i].liabilities]))
    + SumSeq([i \in 1..Len(derivative_parts) |->
                 derivative_parts[i].assets - derivative_parts[i].liabilities])

\* C5: the EVE of every scenario is PV(loan flows, principal included) minus
\* |PV(deposit flows, principal included)| plus the net value of the swaps, for
\* every mix of loans, deposits and swaps
C5_EveIsNetExposure ==
    \A k \in 1..Len(scen) :
        scen[k].metrics.economic_value_of_equity =
            NetExposureEve(
                [i \in 1..Len(LoansOf(scen[k].portfolio)) |->
                    LoanEve(LoansOf(scen[k].portfolio)[i],
                            ScenarioCurve(scen[k].scenario_name), scen[k].today, asm)],
                [i \in 1..Len(DepositsOf(scen[k].portfolio)) |->
                    DepositEve(DepositsOf(scen[k].portfolio)[i],
                               ScenarioCurve(scen[k].scenario_name), scen[k].today, asm)],
                [i \in 1..Len(DerivativesOf(scen[k].portfolio)) |->
                    DerivativeEve(DerivativesOf(scen[k].portfolio)[i],
                                  ScenarioCurve(scen[k].scenario_name), scen[k].today)])

\* the rows of a portfolio without the swaps that are not active at today
\* (start <= today < end)
WithoutInactiveSwaps(portfolio, today_) ==
    {r \in portfolio : r.kind = "derivative" => ActiveForNii(r, today_)}

\* C6: only a swap active at today (start <= today < end) generates flows: the
\* NII and the EVE of every scenario are those of the portfolio without its
\* inactive swaps, and no EVE driver record and no ladder record belongs to a leg
\* of an inactive swap
C6_InactiveSwapContributesNothing ==
    /\ \A k \in 1..Len(scen) :
           scen[k].metrics =
               calculate_nii_and_eve_for_curve(
                   WithoutInactiveSwaps(scen[k].portfolio, scen[k].today),
                   scen[k].today, ScenarioCurve(scen[k].scenario_name), asm)
    /\ \A table \in {"eve_drivers", "cashflow_ladder"} :
           \A k \in 1..Len(outp[table]) :
               \A r \in snap \ WithoutInactiveSwaps(snap, today) :
                   outp[table][k].instrument_id.leg = ""
                   \/ outp[table][k].instrument_id.id # r.id

\* C21: a valuation run never writes the instrument tables: every step other
\* than a commit of another session leaves every loan, deposit and derivative
\* row as it was, adds none and removes none, whether the run returns or raises;
\* only the result tables and the scenario history change
C21_RunLeavesInstrumentsAlone ==
    [][env'.commits = env.commits => db' = db]_vars

\* a run ended, after saving result tables, with the rows it started from
C21_Witness ==
    /\ pc = "raised"
    /\ env.commits = 0
    /\ db = snap
    /\ db # {}
    /\ outp.eve_drivers # <<>>
    /\ outp.scenario_history # <<>>

\* portfolios whose rows have every date, rate and frequency the engine reads
WellFormedPortfolios ==
    { {FixedLoan, TermDeposit, PayerSwap}, {FloatingLoan, SavingsDeposit, ForwardSwap} }

\* C22: a run over a portfolio of well-formed instruments, with no other session
\* committing meanwhile, ends by returning its result object; it does not end in
\* an error after its result tables were saved
C22_RunReturnsResult ==
    (db \in WellFormedPortfolios /\ env.commits = 0) => pc # "raised"

\* the sum of nii_contribution over the saved NII driver records of a scenario
DriverNii(scenario_name) ==
    SumSeq([i \in 1..Len(outp.nii_drivers) |->
               IF outp.nii_drivers[i].scenario = scenario_name
               THEN outp.nii_drivers[i].nii_contribution ELSE 0])

\* C23: in a run that no tick and no commit disturbs, the NII that
\* calculate_nii_and_eve_for_curve reported for each of the six scenarios is the
\* sum of the nii_contribution of the NII driver records saved for that scenario
C23_NiiIsSumOfDrivers ==
    (outp.nii_drivers # <<>> /\ env.ticks = 0 /\ env.commits = 0) =>
        \A k \in 1..Len(scen) :
            scen[k].metrics.net_interest_income = DriverNii(scen[k].scenario_name)

\* the sum of notional over the repricing-bucket records of a bucket and position
RecordsTotal(records, scenario, bucket, position) ==
    SumSeq([i \in 1..Len(records) |->
               IF /\ records[i].scenario = scenario
                  /\ records[i].bucket = bucket
                  /\ (records[i].position = "asset") = (position = "asset")
               THEN records[i].notional
               ELSE 0])

\* the instrument details of a bucket in the answer of get_repricing_gap
RecordsDetail(records, scenario, bucket) ==
    SelectSeq([i \in 1..Len(records) |->
                  [scenario |-> records[i].scenario, bucket |-> records[i].bucket,
                   instrument_id |-> records[i].instrument_id,
                   instrument_type |-> records[i].instrument_type,
                   position |-> records[i].position,
                   amount |-> records[i].notional]],
              LAMBDA detail : detail.scenario = scenario /\ detail.bucket = bucket)

\* the buckets of bucket_order that have a record of the scenario
BucketsWithRecords(records, scenario) ==
    SelectSeq(nii_bucket_order, LAMBDA bucket :
        \E k \in 1..Len(records) :
            records[k].scenario = scenario /\ records[k].bucket = bucket)

\* the totals, the net and the instrument details of each of the buckets
RepricingAnswer(records, scenario, buckets) ==
    [i \in 1..Len(buckets) |->
        [bucket |-> buckets[i],
         assets |-> RecordsTotal(records, scenario, buckets[i], "asset"),
         liabilities |-> RecordsTotal(records, scenario, buckets[i], "liability"),
         net |-> RecordsTotal(records, scenario, buckets[i], "asset")
                 - RecordsTotal(records, scenario, buckets[i], "liability"),
         instruments |-> RecordsDetail(records, scenario, buckets[i])]]

\* GET /api/v1/repricing-gap over the saved repricing-bucket records: the
\* buckets that have a record, in bucket order
get_repricing_gap(records, scenario) ==
    RepricingAnswer(records, scenario, BucketsWithRecords(records, scenario))

\* the net that get_repricing_gap returns for a bucket, 0 where it returns none
NetOf(answer, bucket) ==
    SumSeq([i \in 1..Len(answer) |->
               IF answer[i].bucket = bucket THEN answer[i].net ELSE 0])

\* the run has saved its repricing-bucket records
RepricingSaved ==
    \/ pc \in {"portfolio_composition", "cashflow_ladder", "return"}
    \/ pc = "raised" /\ err = "ValidationError"

\* the saved records and the answer of the endpoint agree with the gap table
RecordsMatchTable ==
    \A i \in 1..Len(gap.result.nii_repricing_gap) :
        /\ RecordsTotal(outp.repricing_buckets, "Base Case",
                        gap.result.nii_repricing_gap[i].bucket, "asset")
               = gap.result.nii_repricing_gap[i].assets
        /\ RecordsTotal(outp.repricing_buckets, "Base Case",
                        gap.result.nii_repricing_gap[i].bucket, "liability")
               = gap.result.nii_repricing_gap[i].liabilities
        /\ NetOf(get_repricing_gap(outp.repricing_buckets, "Base Case"),
                 gap.result.nii_repricing_gap[i].bucket)
               = gap.result.nii_repricing_gap[i].gap

----------------------------------------------------------------------------
(* SpecHistory: request after request in one process; the module-level
   history and the dashboard tables outlive a run, its locals do not *)

MaxRuns == 11
MaxIdleCommits == 1

\* the rows other sessions insert or delete between two requests
ToggledRows == {PayerSwap, WeeklyLoan}

\* the next GET /api/v1/dashboard/live-data after a run has ended
NextRequest ==
    /\ pc \in {"raised", "returned"}
    /\ Len(outp.dashboard_metrics) < MaxRuns
    /\ pc' = "idle"
    /\ err' = "none"
    /\ today' = NoDate
    /\ snap' = {}
    /\ scen' = <<>>
    /\ gap' = <<>>
    /\ asm' = DefaultAssumptions
    /\ UNCHANGED <<fnVars, clock, db, outp, env>>

\* another session commits a create_* or a delete_* while no run is in progress
IdleCommit ==
    \E row \in ToggledRows :
        /\ pc = "idle"
        /\ env.commits < MaxIdleCommits
        /\ db' = IF row \in db THEN db \ {row} ELSE db \cup {row}
        /\ env' = [env EXCEPT !.commits = @ + 1]
        /\ UNCHANGED <<fnVars, clock, pc, today, snap, scen, gap, outp, err, asm>>

InitHistory ==
    /\ FnInit
    /\ clock = ClockStart
    /\ db \in { {TermDeposit}, {TermDeposit, WeeklyLoan} }
    /\ pc = "idle"
    /\ today = NoDate
    /\ snap = {}
    /\ scen = <<>>
    /\ gap = <<>>
    /\ outp = EmptyTables
    /\ err = "none"
    /\ asm = DefaultAssumptions
    /\ env = [ticks |-> 0, commits |-> 0]

NextHistory ==
    \/ StartRun
    \/ ScenarioStep
    \/ SaveYieldCurves
    \/ GapAnalysis
    \/ SaveMetric
    \/ SaveEveDrivers
    \/ SaveNiiDrivers
    \/ SaveRepricingBuckets
    \/ SavePortfolioComposition
    \/ SaveCashflowLadder
    \/ ReturnDashboardData
    \/ NextRequest
    \/ IdleCommit

SpecHistory == InitHistory /\ [][NextHistory]_vars

\* the base-case EVE the scenario loop of the run in progress computed
BaseCaseEve == ScenarioMetric("Base Case", "economic_value_of_equity")

\* what the history step of a run does to the history and nothing else does
HistoryStep ==
    IF pc = "metric" /\ pc' = "eve_drivers"
    THEN /\ Len(outp'.scenario_history) = Min(Len(outp.scenario_history) + 1,
                                              MAX_SCENARIO_HISTORY)
         /\ outp'.scenario_history[Len(outp'.scenario_history)].base = BaseCaseEve
         /\ \A i \in 1..(Len(outp'.scenario_history) - 1) :
                outp'.scenario_history[i]
                    = outp.scenario_history[i + Len(outp.scenario_history) + 1
                                              - Len(outp'.scenario_history)]
    ELSE outp'.scenario_history = outp.scenario_history

----------------------------------------------------------------------------
(* SpecCalc: the functions of calculations.py applied one at a time to sample
   curves, schedules and instrument rows *)

\* the shock maps of the six scenarios, each cut down to the first k tenors
ShockMaps ==
    {[t \in {Tenors[j] : j \in 1..k} |-> INTEREST_RATE_SCENARIOS[n][t]] :
        n \in DOMAIN INTEREST_RATE_SCENARIOS, k \in 0..Len(Tenors)}

CallShockYieldCurve ==
    \E base_curve \in {BASE_YIELD_CURVE, ScenarioCurve("Short Rates Down -100bps")},
       shock_bps \in ShockMaps :
        /\ fn = "none"
        /\ fn' = "shock_yield_curve"
        /\ args' = [base_curve |-> base_curve, shock_bps |-> shock_bps]
        /\ ret' = shock_yield_curve(base_curve, shock_bps)
        /\ UNCHANGED runVars

\* C11: shock_yield_curve returns a curve with the tenor keys of base in which
\* each rate is the base rate plus shock_bps / 10000, a tenor absent from the shock
\* map gets zero shock, and with an all-zero or empty shock map the result is base
C11_ShockAddsBasisPoints ==
    fn = "shock_yield_curve" =>
        /\ DOMAIN ret = DOMAIN args.base_curve
        /\ \A t \in DOMAIN args.base_curve :
               /\ t \in DOMAIN args.shock_bps =>
                      ret[t] = args.base_curve[t] + args.shock_bps[t] * BpUnit
               /\ t \notin DOMAIN args.shock_bps => ret[t] = args.base_curve[t]
        /\ (\A t \in DOMAIN args.shock_bps : args.shock_bps[t] = 0) =>
               ret = args.base_curve

\* a curve was shocked by a map that moves some tenors and does not name others
C11_Witness ==
    /\ fn = "shock_yield_curve"
    /\ \E t \in DOMAIN args.shock_bps : args.shock_bps[t] # 0
    /\ \E t \in DOMAIN args.base_curve : t \notin DOMAIN args.shock_bps
    /\ ret # args.base_curve

\* the flows of the sample schedules: before today, today and after today,
\* received and paid
MaxFlows == 2
SampleFlows ==
    {<<ClockStart + d, a>> : d \in {-10, 0, 91, 365, 1095}, a \in {-6000, 1000, 6000}}

SampleSchedules == UNION {[1..n -> SampleFlows] : n \in 0..MaxFlows}

CallValueSchedule ==
    \E f \in {"calculate_pv_of_cashflows", "calculate_modified_duration"},
       cashflows \in SampleSchedules,
       name \in {"Base Case", "Parallel Up +200bps"} :
        /\ fn = "none"
        /\ fn' = f
        /\ args' = [cashflows |-> cashflows, yield_curve |-> ScenarioCurve(name),
                    today |-> ClockStart]
        /\ ret' = IF f = "calculate_pv_of_cashflows"
                  THEN calculate_pv_of_cashflows(cashflows, ScenarioCurve(name), ClockStart)
                  ELSE calculate_modified_duration(cashflows, ScenarioCurve(name),
                                                   ClockStart)
        /\ UNCHANGED runVars

\* C12: calculate_pv_of_cashflows is the sum, over the flows, of nothing for a
\* flow dated before today, the amount for a flow dated today and
\* amount / (1 + interpolate(curve, days) * days / 365) for a flow dated after today
\* (to the rounding of the fixed point); so a single flow of A dated today is worth
\* A and the empty schedule is worth 0
C12_PvDiscountsFutureFlows ==
    fn = "calculate_pv_of_cashflows" =>
        LET cfs == args.cashflows
            One(flow) == calculate_pv_of_cashflows(<<flow>>, args.yield_curve, args.today)
            Days(flow) == flow[1] - args.today
            Growth(flow) ==
                36500 + (interpolate_rate(args.yield_curve, Days(flow)) * Days(flow))
                            \div 10000
        IN /\ ret = SumSeq([i \in 1..Len(cfs) |-> One(cfs[i])])
           /\ cfs = <<>> => ret = 0
           /\ \A i \in 1..Len(cfs) :
                  /\ Days(cfs[i]) < 0 => One(cfs[i]) = 0
                  /\ Days(cfs[i]) = 0 => One(cfs[i]) = cfs[i][2]
                  /\ Days(cfs[i]) > 0 =>
                         Abs(One(cfs[i]) * Growth(cfs[i]) - cfs[i][2] * 36500)
                             <= 2 * Growth(cfs[i])
           /\ (Len(cfs) = 1 /\ Days(cfs[1]) = 0) => ret = cfs[1][2]

\* a schedule with a flow dated today and a flow dated after today was valued
C12_Witness ==
    /\ fn = "calculate_pv_of_cashflows"
    /\ \E i, j \in 1..Len(args.cashflows) :
           /\ args.cashflows[i][1] = args.today
           /\ args.cashflows[j][1] > args.today
    /\ ret # 0

SampleBases == {-4000, 0, 3000, 4770, 1000000}
SampleMoves == {-100000, -860, -1, 0, 1, 7, 250}

\* the sensitivity computation of generate_dashboard_data_from_db
CallSensitivity ==
    \E base \in SampleBases, move \in SampleMoves :
        /\ fn = "none"
        /\ fn' = "sensitivity"
        /\ args' = [base_case |-> base, up_200bps |-> base + move]
        /\ ret' = Sensitivity(base, base + move)
        /\ UNCHANGED runVars

\* C14: a sensitivity is (Parallel Up +200bps value - Base Case value) / Base
\* Case value * 100 rounded to 2 decimals, and 0 when the Base Case value is 0:
\* Base 1,000,000 and +200bps 900,000 give -10.00
C14_SensitivityRounded ==
    fn = "sensitivity" =>
        /\ args.base_case = 0 => ret = 0
        /\ args.base_case # 0 =>
               2 * Abs(ret * args.base_case - (args.up_200bps - args.base_case) * 10000)
                   <= Abs(args.base_case)
        /\ (args.base_case = 1000000 /\ args.up_200bps = 900000) => ret = -1000

\* a sensitivity whose third decimal rounds up was computed, and one of a base of 0
C14_Witness ==
    /\ fn = "sensitivity"
    /\ \/ args.base_case = 3000 /\ args.up_200bps = 2140 /\ ret = -2867
       \/ args.base_case = 0 /\ args.up_200bps # 0 /\ ret = 0

\* Checking and Savings rows: rates at, near and above the floor, with and
\* without repricing and payment frequencies
NmdDeposits ==
    {Deposit(20, type, 40000, interest_rate, ClockStart - 400, NoDate,
             repricing_frequency, NoDate, payment_frequency) :
        type \in {"Checking", "Savings"}, interest_rate \in {0, 5000, 10000},
        repricing_frequency \in {NoFreq, "Monthly", "Annually"},
        payment_frequency \in {NoFreq, "Monthly", "Quarterly"}}

\* CD and Wholesale Funding rows: without a maturity date, matured, maturing
\* today, and maturing in 300 days; opened in the past or on the maturity date
CdDeposits ==
    {Deposit(21, type, 6000, 30000, open_date, maturity_date, NoFreq, NoDate,
             payment_frequency) :
        type \in {"CD", "Wholesale Funding"},
        open_date \in {NoDate, ClockStart - 500, ClockStart + 300},
        maturity_date \in {NoDate, ClockStart - 5, ClockStart, ClockStart + 300},
        payment_frequency \in {NoFreq, "Semi-Annually"}}

SampleBetas == {0, 50, 100}
SampleNmdYears == {1, 5}

CallDepositCashflows ==
    \E deposit \in NmdDeposits \cup CdDeposits, name \in DOMAIN INTEREST_RATE_SCENARIOS,
       include_principal \in BOOLEAN, nmd_effective_maturity_years \in SampleNmdYears,
       nmd_deposit_beta \in SampleBetas :
        /\ fn = "none"
        /\ fn' = "generate_deposit_cashflows"
        /\ args' = [deposit |-> deposit, scenario |-> name, today |-> ClockStart,
                    include_principal |-> include_principal,
                    nmd_effective_maturity_years |-> nmd_effective_maturity_years,
                    nmd_deposit_beta |-> nmd_deposit_beta]
        /\ ret' = generate_deposit_cashflows(deposit, ScenarioCurve(name), ClockStart,
                                             include_principal,
                                             nmd_effective_maturity_years,
                                             nmd_deposit_beta)
        /\ UNCHANGED runVars

\* the market rate the paid rate of a non-maturity deposit follows: the rate at
\* 365 / periods days of its repricing frequency, at 30 days without one
RepricingTenorRate(deposit, yield_curve) ==
    IF Truthy(deposit.repricing_frequency)
    THEN interpolate_rate_at(yield_curve, 365,
                             get_periods_per_year(deposit.repricing_frequency))
    ELSE interpolate_rate(yield_curve, 30)

\* the interest of one payment period of a non-maturity deposit at a paid rate
NmdInterest(deposit, paid_rate) ==
    IF Truthy(deposit.payment_frequency)
    THEN Accrual(deposit.balance, paid_rate,
                 get_periods_per_year(deposit.payment_frequency))
    ELSE AccrualDays(deposit.balance, paid_rate, 30)

\* C16: every interest flow of a Checking or Savings deposit is computed at
\* max(0.0001, current_rate + beta x (shocked rate at the repricing tenor - base
\* rate at the same tenor)); under the Base Case curve, or with beta = 0 under any
\* scenario, the schedule is the one computed at max(0.0001, current_rate)
C16_NmdPaidRate ==
    (fn = "generate_deposit_cashflows" /\ args.deposit \in NmdDeposits) =>
        LET deposit == args.deposit
            interest_flows ==
                Len(ret.cfs) - (IF args.include_principal THEN 1 ELSE 0)
            market_rate_change ==
                RepricingTenorRate(deposit, ScenarioCurve(args.scenario))
                - RepricingTenorRate(deposit, BASE_YIELD_CURVE)
            paid_rate ==
                Max(RateFloor,
                    deposit.interest_rate
                    + (IF market_rate_change < 0
                       THEN -((-market_rate_change * args.nmd_deposit_beta) \div BetaUnit)
                       ELSE (market_rate_change * args.nmd_deposit_beta) \div BetaUnit))
        IN /\ ret.err = "none"
           /\ interest_flows > 0
           /\ \A i \in 1..interest_flows :
                  ret.cfs[i][2] = -NmdInterest(deposit, paid_rate)
           /\ (args.scenario = "Base Case" \/ args.nmd_deposit_beta = 0) =>
                  /\ \A i \in 1..interest_flows :
                         ret.cfs[i][2]
                             = -NmdInterest(deposit, Max(RateFloor, deposit.interest_rate))
                  /\ ret = generate_deposit_cashflows(
                               deposit, BASE_YIELD_CURVE, args.today,
                               args.include_principal,
                               args.nmd_effective_maturity_years, 0)

\* a Savings or Checking schedule was generated whose paid rate the floor sets
\* under a falling curve, and one whose paid rate moved with a rising curve
C16_Witness ==
    /\ fn = "generate_deposit_cashflows"
    /\ args.deposit \in NmdDeposits
    /\ args.nmd_deposit_beta > 0
    /\ Len(ret.cfs) > 1
    /\ \/ /\ args.scenario = "Parallel Down -200bps"
          /\ args.deposit.interest_rate = 5000
          /\ ret.cfs[1][2] = -NmdInterest(args.deposit, RateFloor)
       \/ /\ args.scenario = "Parallel Up +200bps"
          /\ ret.cfs[1][2] # -NmdInterest(args.deposit, args.deposit.interest_rate)

\* swaps running at today and starting in 50 days: both subtypes, ending in 600
\* and 1200 days, with the payment-frequency columns filled in different ways
SampleSwaps ==
    {Derivative(30, "Interest Rate Swap", subtype, 5000, start_date, end_date,
                45000, floating_spread, fixed_payment_frequency,
                floating_payment_frequency) :
        subtype \in {"Payer Swap", "Receiver Swap"},
        start_date \in {ClockStart - 200, ClockStart + 50},
        end_date \in {ClockStart + 600, ClockStart + 1200},
        floating_spread \in {NoRate, 0, 2500},
        fixed_payment_frequency \in {NoFreq, "Annually", "Quarterly"},
        floating_payment_frequency \in {NoFreq, "Annually", "Semi-Annually"}}

CallSwapLeg ==
    \E f \in {"generate_fixed_leg_cashflows", "generate_floating_leg_cashflows"},
       derivative \in SampleSwaps, name \in DOMAIN INTEREST_RATE_SCENARIOS :
        /\ fn = "none"
        /\ fn' = f
        /\ args' = [derivative |-> derivative, scenario |-> name, today |-> ClockStart]
        /\ ret' = IF f = "generate_fixed_leg_cashflows"
                  THEN generate_fixed_leg_cashflows(derivative, ScenarioCurve(name),
                                                    ClockStart)
                  ELSE generate_floating_leg_cashflows(derivative, ScenarioCurve(name),
                                                       ClockStart)
        /\ UNCHANGED runVars

\* C17: for an active swap the fixed leg is a list of payments one year apart,
\* each fixed_rate x notional, and the floating leg a list of payments one year
\* apart, each (interpolate(curve, days_to_payment) + floating_spread) x notional,
\* whatever the payment-frequency columns hold
C17_SwapLegsPayAnnualCoupons ==
    (/\ fn \in {"generate_fixed_leg_cashflows", "generate_floating_leg_cashflows"}
     /\ args.derivative.start_date <= args.today
     /\ args.derivative.end_date > args.today) =>
        /\ ret.err = "none"
        /\ \A i \in 1..Len(ret.cfs) :
               /\ i > 1 => ret.cfs[i][1] = ret.cfs[i - 1][1] + 365
               /\ LET annual_rate ==
                          IF fn = "generate_fixed_leg_cashflows"
                          THEN args.derivative.fixed_rate
                          ELSE interpolate_rate(ScenarioCurve(args.scenario),
                                                ret.cfs[i][1] - args.today)
                               + OrZero(args.derivative.floating_spread)
                  IN Abs(ret.cfs[i][2] * RateUnit
                         - args.derivative.notional * annual_rate) < RateUnit

MaxRows == 3

HtmSecurity ==
    Loan(11, "HTM Securities", 3000, 40000, ClockStart - 300, ClockStart + 4000,
         NoRate, NoFreq, NoDate, "Annually")

\* reprices every 30 days from day 20 up to its maturity on day 200
MonthlyFloater ==
    Loan(12, "Floating Rate Loan", 8000, NoRate, ClockStart - 30, ClockStart + 200,
         10000, "Monthly", ClockStart + 20, "Quarterly")

MaturedCd ==
    Deposit(7, "CD", 6000, 30000, ClockStart - 500, ClockStart - 5,
            NoFreq, NoDate, "Semi-Annually")

UndatedCd ==
    Deposit(8, "Wholesale Funding", 2500, 30000, ClockStart - 500, NoDate,
            NoFreq, NoDate, NoFreq)

PortfolioRows ==
    {FixedLoan, HtmSecurity, NoMaturityLoan, FloatingLoan, MonthlyFloater,
     TermDeposit, MaturedCd, UndatedCd, SavingsDeposit}

SamplePortfolios == {rows \in SUBSET PortfolioRows : Cardinality(rows) \in 1..MaxRows}

CallValuePortfolio ==
    \E f \in {"calculate_gap_analysis", "calculate_nii_and_eve_for_curve"},
       portfolio \in SamplePortfolios, name \in DOMAIN INTEREST_RATE_SCENARIOS :
        /\ fn = "none"
        /\ fn' = f
        /\ args' = [portfolio |-> portfolio, today |-> ClockStart,
                    scenario |-> IF f = "calculate_gap_analysis" THEN "Base Case"
                                 ELSE name]
        /\ ret' = IF f = "calculate_gap_analysis"
                  THEN calculate_gap_analysis(portfolio, ClockStart)
                  ELSE calculate_nii_and_eve_for_curve(portfolio, ClockStart,
                                                       ScenarioCurve(name),
                                                       DefaultAssumptions)
        /\ UNCHANGED runVars

\* a CD or wholesale-funding row whose maturity date is missing or not after today
DeadCd(row, today_) ==
    /\ row.kind = "deposit"
    /\ row.type \in {"CD", "Wholesale Funding"}
    /\ row.maturity_date = NoDate \/ row.maturity_date <= today_

\* C20: a CD or wholesale-funding deposit whose maturity date is missing, today
\* or before today has an empty schedule in both horizon modes and no exception
\* leaves the function; in a portfolio it adds nothing to NII and EVE, and the
\* other rows are valued as they are without it
C20_DeadCdHasNoFlows ==
    /\ (fn = "generate_deposit_cashflows" /\ DeadCd(args.deposit, args.today)) =>
           ret = [err |-> "none", cfs |-> <<>>]
    /\ fn = "calculate_nii_and_eve_for_curve" =>
           /\ ret = calculate_nii_and_eve_for_curve(
                        {row \in args.portfolio : ~DeadCd(row, args.today)},
                        args.today, ScenarioCurve(args.scenario), DefaultAssumptions)
           /\ NoMaturityLoan \notin args.portfolio => ret.err = "none"

\* a portfolio of a loan, a CD that matured five days ago and a wholesale
\* deposit without a maturity date was valued
C20_Witness ==
    /\ fn = "calculate_nii_and_eve_for_curve"
    /\ args.portfolio = {FixedLoan, MaturedCd, UndatedCd}
    /\ ret.err = "none"
    /\ ret.economic_value_of_equity = ret.total_assets_value
    /\ ret.total_assets_value > 0

\* fixed-rate loans and HTM securities without a repricing date, with the
\* maturity date schemas.LoanBase requires, CDs and wholesale funding
FixedRateRow(row) ==
    \/ /\ row.kind = "loan"
       /\ row.type \in {"Fixed Rate Loan", "HTM Securities"}
       /\ row.next_repricing_date = NoDate
       /\ row.maturity_date # NoDate
    \/ /\ row.kind = "deposit"
       /\ row.type \in {"CD", "Wholesale Funding"}

\* the sum of a column over the rows of one kind
RECURSIVE TotalOf(_, _, _)
TotalOf(rows, kind, column) ==
    IF rows = {} THEN 0
    ELSE LET row == CHOOSE r \in rows : TRUE
         IN (IF row.kind = kind THEN row[column] ELSE 0)
            + TotalOf(rows \ {row}, kind, column)

\* a gap table reconciles with a portfolio: every bucket's gap is its assets
\* minus its liabilities, the assets over all buckets are the loans' notional and
\* the liabilities the deposits' balance, in no more buckets than there are rows,
\* and the gaps sum to the notional minus the balance
Reconciles(table, rows) ==
    /\ \A i \in 1..Len(table) : table[i].gap = table[i].assets - table[i].liabilities
    /\ SumSeq([i \in 1..Len(table) |-> table[i].assets]) = TotalOf(rows, "loan", "notional")
    /\ SumSeq([i \in 1..Len(table) |-> table[i].liabilities])
           = TotalOf(rows, "deposit", "balance")
    /\ Cardinality({i \in 1..Len(table) : table[i].assets # 0})
           <= Cardinality({r \in rows : r.kind = "loan"})
    /\ Cardinality({i \in 1..Len(table) : table[i].liabilities # 0})
           <= Cardinality({r \in rows : r.kind = "deposit"})
    /\ SumSeq([i \in 1..Len(table) |-> table[i].gap])
           = TotalOf(rows, "loan", "notional") - TotalOf(rows, "deposit", "balance")

RepricingDates(loan) ==
    {date \in loan.next_repricing_date..loan.maturity_date :
        \/ date = loan.next_repricing_date
        \/ /\ GapStep(loan.repricing_frequency) > 0
           /\ (date - loan.next_repricing_date) % GapStep(loan.repricing_frequency) = 0}

\* C19: in the NII repricing-gap table a floating-rate loan with several
\* repricing dates before maturity adds its notional once to every bucket holding
\* at least one of those dates and nothing to the other buckets
C19_FloaterOncePerBucket ==
    (/\ fn = "calculate_gap_analysis"
     /\ \E loan \in args.portfolio :
            /\ loan.kind = "loan"
            /\ loan.type = "Floating Rate Loan"
            /\ loan.next_repricing_date # NoDate
            /\ loan.maturity_date # NoDate
            /\ \A other \in args.portfolio \ {loan} : other.kind # "loan") =>
        LET loan == CHOOSE row \in args.portfolio : row.kind = "loan"
        IN /\ ret.err = "none"
           /\ \A i \in 1..Len(ret.nii_repricing_gap) :
                  ret.nii_repricing_gap[i].assets
                      = IF \E date \in RepricingDates(loan) :
                               get_bucket(date, args.today, nii_buckets_def)
                                   = ret.nii_repricing_gap[i].bucket
                        THEN loan.notional
                        ELSE 0

----------------------------------------------------------------------------
(* the dashboard endpoints of main.py that read the saved tables *)

\* strftime("%Y-%m") of a cash-flow date: the month the date falls in, as
\* the number of whole 30-day months since day 0
YearMonth(date) == date \div 30

\* value * (part / whole) with the sign of each factor kept
ShareOf(value, part, whole) ==
    IF (value < 0) = ((part < 0) = (whole < 0))
    THEN -((Abs(value) * Abs(part)) \div Abs(whole))
    ELSE (Abs(value) * Abs(part)) \div Abs(whole)

\* what a ladder record adds to one component of its bucket
LadderValue(rec, component, cashflow_type) ==
    IF cashflow_type = "total"
    THEN rec[component]
    ELSE IF rec.total_cashflow # 0
         THEN ShareOf(rec.pv, rec[component], rec.total_cashflow)
         ELSE 0

\* the first loop of get_cashflow_ladder: the records it does not skip
LadderAdded(records, scenario, aggregation) ==
    SelectSeq(records, LAMBDA rec :
        /\ rec.scenario = scenario
        /\ ~(aggregation = "assets" /\ rec.asset_liability # "A")
        /\ ~(aggregation = "liabilities" /\ rec.asset_liability # "L"))

\* the second loop of get_cashflow_ladder: the records it takes off again
LadderSubtracted(records, scenario, aggregation) ==
    SelectSeq(records, LAMBDA rec :
        /\ aggregation = "net"
        /\ rec.scenario = scenario
        /\ rec.asset_liability = "L")

\* the sum of one component over the records of a month
LadderSum(recs, month, component, cashflow_type) ==
    SumSeq([i \in 1..Len(recs) |->
               IF YearMonth(recs[i].cashflow_date) = month
               THEN LadderValue(recs[i], component, cashflow_type)
               ELSE 0])

\* the months of a set in ascending order
SortedMonths(months) ==
    [i \in 1..Cardinality(months) |->
        CHOOSE m \in months : Cardinality({k \in months : k < m}) = i - 1]

LadderBuckets(added, subtracted, months, cashflow_type) ==
    [i \in 1..Len(months) |->
        [time_label |-> months[i],
         fixed |-> LadderSum(added, months[i], "fixed_component", cashflow_type)
                   - LadderSum(subtracted, months[i], "fixed_component", cashflow_type),
         floating |-> LadderSum(added, months[i], "floating_component", cashflow_type)
                      - LadderSum(subtracted, months[i], "floating_component",
                                  cashflow_type)]]

get_cashflow_ladder(records, scenario, aggregation, cashflow_type) ==
    LadderBuckets(LadderAdded(records, scenario, aggregation),
                  LadderSubtracted(records, scenario, aggregation),
                  SortedMonths({YearMonth(LadderAdded(records, scenario, aggregation)[i].cashflow_date) :
                                   i \in 1..Len(LadderAdded(records, scenario, aggregation))}),
                  cashflow_type)

\* what a run builds for the cash-flow ladder table, scenario by scenario
SavedLadderParts(portfolio, today_) ==
    OverScenarios([name \in DOMAIN INTEREST_RATE_SCENARIOS |->
        LadderBalanceSheet(name, LoansOf(portfolio), DepositsOf(portfolio),
                           ScenarioCurve(name), today_, DefaultAssumptions)
        \o LadderDerivatives(name, DerivativesOf(portfolio), ScenarioCurve(name),
                             today_)])

\* the records a run saves in the cash-flow ladder table
SavedLadder(portfolio, today_) ==
    Flatten([i \in 1..Len(SavedLadderParts(portfolio, today_)) |->
                SavedLadderParts(portfolio, today_)[i].recs])

LadderPortfolios ==
    { {FixedLoan, TermDeposit}, {FixedLoan, TermDeposit, PayerSwap},
      {FloatingLoan, TermDeposit}, {FixedLoan}, {TermDeposit} }

CallGetCashflowLadder ==
    \E portfolio \in LadderPortfolios, scenario \in {"Base Case", "Parallel Up +200bps"},
       aggregation \in {"assets", "liabilities", "net"},
       cashflow_type \in {"pv", "total"} :
        /\ fn = "none"
        /\ fn' = "get_cashflow_ladder"
        /\ args' = [records |-> SavedLadder(portfolio, ClockStart),
                    scenario |-> scenario, aggregation |-> aggregation,
                    cashflow_type |-> cashflow_type]
        /\ ret' = get_cashflow_ladder(SavedLadder(portfolio, ClockStart), scenario,
                                      aggregation, cashflow_type)
        /\ UNCHANGED runVars

\* the bucket of a month in a ladder answer, zero where the month is absent
BucketOf(buckets, month) ==
    IF \E i \in 1..Len(buckets) : buckets[i].time_label = month
    THEN buckets[CHOOSE i \in 1..Len(buckets) : buckets[i].time_label = month]
    ELSE [time_label |-> month, fixed |-> 0, floating |-> 0]

\* C24: with aggregation = 'net' every monthly bucket of the cash-flow ladder
\* holds the assets total minus the liabilities total of that month, fixed and
\* floating components separately, from the records that the 'assets' and the
\* 'liabilities' aggregations return
C24_NetIsAssetsMinusLiabilities ==
    (fn = "get_cashflow_ladder" /\ args.aggregation = "net") =>
        \A i \in 1..Len(ret) :
            /\ ret[i].fixed
                   = BucketOf(get_cashflow_ladder(args.records, args.scenario, "assets",
                                                  args.cashflow_type),
                              ret[i].time_label).fixed
                     - BucketOf(get_cashflow_ladder(args.records, args.scenario,
                                                    "liabilities", args.cashflow_type),
                                ret[i].time_label).fixed
            /\ ret[i].floating
                   = BucketOf(get_cashflow_ladder(args.records, args.scenario, "assets",
                                                  args.cashflow_type),
                              ret[i].time_label).floating
                     - BucketOf(get_cashflow_ladder(args.records, args.scenario,
                                                    "liabilities", args.cashflow_type),
                                ret[i].time_label).floating

\* C27: generate_deposit_cashflows returns for every deposit whose open date is
\* not null and, for a CD or wholesale funding, whose maturity date is not null,
\* a CD with no payment frequency included
C27_DepositCashflowsReturn ==
    (/\ fn = "generate_deposit_cashflows"
     /\ args.deposit.open_date # NoDate
     /\ args.deposit.type \in {"CD", "Wholesale Funding"} =>
            args.deposit.maturity_date # NoDate) =>
        ret.err # "NoReturn"

\* C29: the present value that calculate_modified_duration divides by is
\* calculate_pv_of_cashflows of the same schedule, curve and today, flows dated
\* today included, so the duration is undefined exactly when that present value
\* is zero or the schedule is empty
C29_DurationDividesByPv ==
    fn = "calculate_modified_duration" =>
        /\ SumSeq([i \in 1..Len(FutureFlows(args.cashflows, args.today)) |->
                      FlowPv(FutureFlows(args.cashflows, args.today)[i],
                             args.yield_curve, args.today)])
               = calculate_pv_of_cashflows(args.cashflows, args.yield_curve, args.today)
        /\ (ret = NoDuration) <=>
               \/ args.cashflows = <<>>
               \/ calculate_pv_of_cashflows(args.cashflows, args.yield_curve,
                                            args.today) = 0

\* the functions that generate a cash-flow schedule
Generators ==
    {"generate_loan_cashflows", "generate_deposit_cashflows",
     "generate_fixed_leg_cashflows", "generate_floating_leg_cashflows"}

\* the outcome of the generator that was applied
GeneratedSchedule == IF fn = "generate_loan_cashflows" THEN ret.out ELSE ret

\* the maturity or end date of the instrument the generator was applied to, the
\* effective maturity date for a checking or savings account
FinalDate ==
    IF fn = "generate_loan_cashflows" THEN args.loan.maturity_date
    ELSE IF fn = "generate_deposit_cashflows"
    THEN (IF args.deposit.type \in {"Checking", "Savings"}
          THEN args.today + 365 * args.nmd_effective_maturity_years
          ELSE args.deposit.maturity_date)
    ELSE args.derivative.end_date

\* C30: every schedule a generator returns (loan, CD or wholesale funding,
\* non-maturity deposit, fixed leg, floating leg) is in non-decreasing date
\* order, holds only flows dated after today, and holds no flow dated after the
\* instrument's maturity or end date (the effective maturity date for a
\* non-maturity deposit)
C30_SchedulesOrderedAndBounded ==
    (fn \in Generators /\ GeneratedSchedule.err = "none") =>
        \A i \in 1..Len(GeneratedSchedule.cfs) :
            /\ GeneratedSchedule.cfs[i][1] > args.today
            /\ GeneratedSchedule.cfs[i][1] <= FinalDate
            /\ i > 1 => GeneratedSchedule.cfs[i - 1][1] <= GeneratedSchedule.cfs[i][1]

\* C30: the full-life schedule of a CD that pays twice a year and matures in 300
\* days was generated: interest before maturity, then the repayment
C30_Witness ==
    /\ fn = "generate_deposit_cashflows"
    /\ args.deposit.type = "CD"
    /\ args.include_principal
    /\ ret.err = "none"
    /\ Len(ret.cfs) >= 3
    /\ ret.cfs[1][1] < ret.cfs[Len(ret.cfs)][1]
    /\ ret.cfs[Len(ret.cfs)][1] = args.deposit.maturity_date

----------------------------------------------------------------------------
(* SpecCalc: initial condition, next-state relation and specification *)

InitCalc == FnInit /\ RunIdle

NextCalc ==
    \/ CallShockYieldCurve
    \/ CallValueSchedule
    \/ CallSensitivity
    \/ CallDepositCashflows
    \/ CallSwapLeg
    \/ CallValuePortfolio
    \/ CallGetCashflowLadder
    \/ CallLoanCashflows

SpecCalc == InitCalc /\ [][NextCalc]_vars

====
